---- MODULE Spec2Model ----
(***************************************************************************)
(* Model of the search-and-validate pipeline of TVChannelSearcher:         *)
(*   Parser/searcher_interface.py  BaseIPTVSearcher                        *)
(*     _validate_links_concurrent  (the validation engine)                 *)
(*     search_channels             (the paging / caching orchestration)    *)
(*                                                                         *)
(* A channel is an integer id; UrlOf gives its url, so that two different  *)
(* IPTVChannel objects can carry the same url.  Lists are sequences.       *)
(***************************************************************************)
EXTENDS Integers, Sequences, FiniteSets, TLC

\* ------------------------------------------------------------------------
\* Bounds of the model
\* ------------------------------------------------------------------------
NumChannels == 3      \* channel objects the site can return
MaxPageLen == 2       \* candidates on one result page (search_channels runs)
MaxWorkers == 2       \* largest configured concurrent_workers
MaxTarget == 2        \* largest min_valid_links / remaining_needed
MaxResults == 2       \* largest configured max_results
MaxPages == 2         \* largest configured max_pages
MaxSearches == 2      \* search_channels calls on one searcher
MaxFetches == 2       \* page fetches of the concrete searchers
MaxGroups == 2        \* channel groups of a batch run
MaxGroupLen == 3      \* channel names in one group
MaxGroupWorkers == 2  \* largest configured max_workers_per_group
MaxConcurrentGroups == 2
MaxUnits == 2         \* process_single_channel calls of the group searched on one searcher
MaxBucket == 3        \* links of the bucket handed to the frequency sort
MaxFrequency == 2     \* largest count of a host in the frequency table
MaxTokens == 3        \* runs of digits and of other characters in a resolution text
MaxItems == 3         \* candidates of a parsed page
MaxRegistrations == 2 \* register_searcher calls after the import of the modules
MaxInstances == 4     \* searcher instances constructed

\* ------------------------------------------------------------------------
\* Program constants
\* ------------------------------------------------------------------------
HardCap == 16                 \* min(..., 16) in _validate_links_concurrent
DefaultMaxResults == 10       \* SearchConfig.max_results
DefaultMaxPages == 2          \* SearchConfig.max_pages
DefaultWorkers == 16          \* SearchConfig.concurrent_workers
DefaultMinValidLinks == 3     \* SearchConfig.min_valid_links
MaxRetries == 3               \* range(3) in TonkiangSearcher._send_search_request
DefaultWorkersPerGroup == 4   \* ProcessorConfig.max_workers_per_group
DefaultConcurrentGroups == 2  \* ProcessorConfig.concurrent_groups
ProcessorMinValidLinks == 5   \* ProcessorConfig.min_valid_links

Channels == 1..NumChannels
UrlOf(c) == (c + 1) \div 2    \* channels 1,2 share a url; 3,4 share the next
KeywordSet == {"CCTV-1"}
Verdicts == {"valid", "invalid", "raise", "hang"}

Min(a, b) == IF a <= b THEN a ELSE b
Max(a, b) == IF a >= b THEN a ELSE b
Range(s) == {s[i] : i \in DOMAIN s}

\* All duplicate-free lists of channel objects of length n / at most n.
ListsOfLen(n) == {s \in [1..n -> Channels] : \A i, j \in 1..n : i # j => s[i] # s[j]}
ListsUpTo(n) == UNION {ListsOfLen(k) : k \in 0..n}
PageLists == ListsUpTo(MaxPageLen)

\* Python slice s[:n] (a negative n counts from the end).
PySlice(s, n) ==
    IF n >= 0 THEN SubSeq(s, 1, Min(n, Len(s)))
    ELSE SubSeq(s, 1, Max(0, Len(s) + n))

VARIABLES
    config,          \* self.config (SearchConfig)
    verdict,         \* what _validate_link does for each channel ("unset": not probed yet)
    search_cache,    \* self._search_cache: [enabled, entries]
    pc,              \* position of the calling thread
    keyword,         \* argument of the running search_channels call
    all_channels,    \* search_channels: all_channels
    page,            \* search_channels: page
    result,          \* value returned by the last search_channels call
    calls,           \* search_channels calls made so far
    page_requests,   \* _send_search_request calls of the current search
    fetch_outcome,   \* what the last page request and parse of the current search did
    channels,        \* _validate_links_concurrent: channels
    target_count,    \* _validate_links_concurrent: target_count
    max_workers,     \* _validate_links_concurrent: max_workers
    futures,         \* state of the future of each submitted probe
    yield_order,     \* indices yielded by as_completed, in order
    valid_channels,  \* _validate_links_concurrent: valid_channels
    should_exit,     \* _validate_links_concurrent: should_exit
    exit_via,        \* how the collecting loop was left
    engine_ret,      \* value returned by _validate_links_concurrent
    probe_calls,     \* _validate_link calls of the current engine invocation
    in_time,         \* no engine call of the current search ran into the 12 s timeout
                     \* of as_completed or the 10 s elapsed-time check
    searcher,        \* the concrete searcher whose _send_search_request is running
    fpc,             \* position inside _send_search_request and the caller's pass
    posts,           \* search requests sent by the current _send_search_request
    retry_count,     \* TonkiangSearcher._send_search_request: retry_count
    html_content,    \* value returned by _send_search_request
    fetch_failed,    \* the page fetch failed (exception, timeout or bad status)
    fetch_log,       \* one record per finished pass of the paging loop
    last_status,     \* status code of the last response of the current fetch
                     \* (0: none yet, or the request raised)
    bconfig,         \* ModularBatchProcessor.config (ProcessorConfig)
    groups,          \* the ChannelGroup list handed to process_all_groups
    bpc,             \* position inside process_all_groups / process_group_concurrent
    gidx,            \* process_all_groups: index of the group being processed
    cidx,            \* serial mode: index i of the channel being processed
    search_state,    \* per group and channel: state of its process_single_channel call
    search_outcome,  \* per group and channel: what searcher.search_channels did
    group_channels,  \* process_group_concurrent: group_channels
    all_results,     \* process_all_groups: all_results
    delays,          \* serial mode: inter-channel sleeps taken in the current group
    unit_pc,         \* per process_single_channel call of a group: where it stands
    unit_retries,    \* per call: retry_count of its _send_search_request
    session_headers, \* self.session.headers of the one searcher all calls share
    last_request,    \* per call: the request it sent last, with the headers it carried
    probe_pool,      \* per call: state of each probe of its validation pool
    domain_counter,  \* DomainFrequencyProcessor.domain_counter
    output,          \* the rows written to the output file, in order
    fn,              \* the function the state exercises on its own
    bucket,          \* sort_channels_by_domain_frequency: channels
    sorted_channels, \* sort_channels_by_domain_frequency: the list returned
    resolution,      \* IPTVChannel.resolution, as runs of digits and of other characters
    quality,         \* IPTVChannel.quality after __post_init__
    parser,          \* the searcher whose _parse_search_results is called
    page_items,      \* the candidates of the page handed to it
    parsed,          \* what _parse_search_results did: [raised, channels]
    probed,          \* the link handed to TonkiangSearcher._validate_link and what
                     \* its probe does: [enabled, ipv6, m3u8, probe]
    kept,            \* value returned by TonkiangSearcher._validate_link
    registry,        \* SearcherFactory._searchers
    register_log,    \* the register_searcher calls made so far, oldest first
    processor,       \* a ModularBatchProcessor: [searcher_name, searcher]
    created,         \* what the last direct create_searcher call did
    instances        \* searcher instances constructed so far

search_vars == <<search_cache, keyword, all_channels, page, result, calls, page_requests,
                 fetch_outcome>>
engine_vars == <<channels, target_count, max_workers, futures, yield_order,
                 valid_channels, should_exit, exit_via, engine_ret, probe_calls>>
fetch_vars == <<searcher, fpc, posts, retry_count, html_content, fetch_failed, fetch_log,
                last_status>>
batch_vars == <<bconfig, groups, bpc, gidx, cidx, search_state, search_outcome,
                group_channels, all_results, delays>>
shared_vars == <<unit_pc, unit_retries, session_headers, last_request, probe_pool>>
run_vars == <<domain_counter, output>>
fn_vars == <<fn, bucket, sorted_channels, resolution, quality, parser, page_items, parsed,
             probed, kept>>
registry_vars == <<registry, register_log, processor, created, instances>>
ext_vars == <<shared_vars, run_vars, fn_vars, registry_vars>>
aux_vars == <<fetch_vars, batch_vars, ext_vars>>
core_vars == <<config, verdict, pc, search_vars, engine_vars, in_time>>
vars == <<core_vars, aux_vars>>

\* ------------------------------------------------------------------------
\* The validation engine: BaseIPTVSearcher._validate_links_concurrent
\* ------------------------------------------------------------------------

\* An Optional[int] argument: <<>> is None, <<n>> is n.
None == <<>>
Some(n) == <<n>>

\* Mutant of NeededOf: the argument is ignored.
NeededOf_IgnoresRemaining(remaining_needed) == config.min_valid_links

\* remaining_needed if remaining_needed is not None else min_valid_links
NeededOf(remaining_needed) ==
    IF remaining_needed # None THEN remaining_needed[1] ELSE config.min_valid_links

\* Mutant of MaxWorkersOf: one thread per candidate, the configuration ignored.
MaxWorkersOf_PerCandidate(chs) == Len(chs)

\* max_workers = min(concurrent_workers, len(channels), 16)
MaxWorkersOf(chs) == Min(Min(config.concurrent_workers, Len(chs)), HardCap)

Running == {i \in DOMAIN futures : futures[i] = "running"}
Queued == {i \in DOMAIN futures : futures[i] = "queued"}
Finished == {i \in DOMAIN futures : futures[i] = "done"}
Yielded == Range(yield_order)
completed_count == Len(yield_order)

\* Entry of the engine up to the as_completed loop: the early return without
\* probing, the executor construction (ValueError for max_workers <= 0, which
\* is raised outside the try block) and the submission of every candidate.
\* next_pc is where the caller continues after a return, raise_pc after a raise.
ValidateEntry(chs, remaining_needed, next_pc, raise_pc) ==
    /\ channels' = chs
    /\ yield_order' = <<>>
    /\ valid_channels' = <<>>
    /\ should_exit' = FALSE
    /\ exit_via' = "none"
    /\ target_count' = NeededOf(remaining_needed)   \* "needed" on the early return
    /\ IF ~config.enable_validation \/ chs = <<>>
       THEN /\ engine_ret' = PySlice(chs, NeededOf(remaining_needed))
            /\ pc' = next_pc
            /\ max_workers' = 0
            /\ futures' = <<>>
       ELSE /\ max_workers' = MaxWorkersOf(chs)
            /\ engine_ret' = <<>>
            /\ IF MaxWorkersOf(chs) <= 0
               THEN /\ pc' = raise_pc
                    /\ futures' = <<>>
               ELSE /\ pc' = "collect"
                    /\ futures' = [i \in 1..Len(chs) |-> "queued"]

\* A direct call of the engine on an idle searcher.
EngineInvoke(chs, remaining_needed) ==
    /\ pc = "idle"
    /\ ValidateEntry(chs, remaining_needed, "validated", "raised")
    /\ probe_calls' = 0
    /\ UNCHANGED <<aux_vars, in_time, config, verdict, search_vars>>

\* A pool thread takes the oldest queued work item and calls _validate_link.
\* The pool never has more than max_workers threads.
ProbeStartGuard(i) ==
    /\ i \in Queued
    /\ \A j \in Queued : i <= j
    /\ Cardinality(Running) < max_workers

ProbeStart(i) ==
    /\ ProbeStartGuard(i)
    /\ futures' = [futures EXCEPT ![i] = "running"]
    /\ probe_calls' = probe_calls + 1
    /\ UNCHANGED <<aux_vars, in_time, config, verdict, pc, search_vars, channels, target_count, max_workers,
                   yield_order, valid_channels, should_exit, exit_via, engine_ret>>

\* _validate_link returns (true or false) or raises; a probe that hangs never
\* gets here.  v is what the probe does: the first probe of a channel fixes
\* it when it was not fixed from the start, later probes of the channel repeat it.
ProbeFinish(i, v) ==
    /\ i \in Running
    /\ v # "hang"
    /\ verdict[channels[i]] \in {"unset", v}
    /\ verdict' = [verdict EXCEPT ![channels[i]] = v]
    /\ futures' = [futures EXCEPT ![i] = "done"]
    /\ UNCHANGED <<aux_vars, in_time, config, pc, search_vars, channels, target_count, max_workers,
                   yield_order, valid_channels, should_exit, exit_via, engine_ret, probe_calls>>

\* Mutant of AfterResult: a probe that raised counts as a valid link.
AfterResult_RaiseCounts(valid, ch) ==
    IF verdict[ch] \in {"valid", "raise"} THEN Append(valid, ch) ELSE valid

\* Mutant of AfterResult: the result of the probe is not looked at.
AfterResult_Unchecked(valid, ch) == Append(valid, ch)

\* Mutant of AfterResult: the newest valid link is put in front.
AfterResult_Prepend(valid, ch) ==
    IF verdict[ch] = "valid" THEN <<ch>> \o valid ELSE valid

\* valid_channels after the try block of one loop iteration: a probe that
\* returned true appends its channel, a false result or an exception does not.
AfterResult(valid, ch) ==
    IF verdict[ch] = "valid" THEN Append(valid, ch) ELSE valid

\* Mutant of TargetReached: the loop stops one link short of the target.
TargetReached_OneShort(valid) == Len(valid) >= target_count - 1

\* Mutant of TargetReached: the loop goes on until the target is exceeded.
TargetReached_Exceeded(valid) == Len(valid) > target_count

\* len(valid_channels) >= target_count
TargetReached(valid) == Len(valid) >= target_count

\* One iteration of "for future in as_completed(...)": future i is yielded
\* and the loop body runs.  late says whether the elapsed-time check
\* (time.time() - start_time > 10) trips in this iteration.
Collect(i, late) ==
    /\ pc = "collect"
    /\ i \in Finished \ Yielded
    /\ LET valid == AfterResult(valid_channels, channels[i])
           reached == verdict[channels[i]] = "valid" /\ TargetReached(valid)
           flag == should_exit \/ reached
           order == Append(yield_order, i)
       IN IF should_exit
          THEN \* "if should_exit: break" at the top of the body
               /\ UNCHANGED <<yield_order, valid_channels, should_exit>>
               /\ exit_via' = "flag"
               /\ pc' = "shutdown"
          ELSE /\ yield_order' = order
               /\ valid_channels' = valid
               /\ IF late
                  THEN \* elapsed-time protection: should_exit = True; break
                       /\ should_exit' = TRUE
                       /\ exit_via' = "elapsed"
                       /\ pc' = "shutdown"
                  ELSE IF flag /\ TargetReached(valid)
                  THEN \* target reached: break
                       /\ should_exit' = flag
                       /\ exit_via' = "target"
                       /\ pc' = "shutdown"
                  ELSE IF Range(order) = DOMAIN futures
                  THEN \* as_completed is exhausted, the loop ends
                       /\ should_exit' = flag
                       /\ exit_via' = "exhausted"
                       /\ pc' = "shutdown"
                  ELSE /\ should_exit' = flag
                       /\ exit_via' = "none"
                       /\ pc' = "collect"
    /\ in_time' = (in_time /\ (should_exit \/ ~late))
    /\ UNCHANGED <<aux_vars, config, verdict, search_vars, channels, target_count, max_workers,
                   futures, engine_ret, probe_calls>>

\* Mutant of AsCompletedTimeout: the timeout handler gives up the confirmed links.
AsCompletedTimeout_DropsConfirmed ==
    /\ pc = "collect"
    /\ Yielded # DOMAIN futures
    /\ exit_via' = "timeout"
    /\ valid_channels' = <<>>
    /\ pc' = "shutdown"
    /\ in_time' = FALSE
    /\ UNCHANGED <<aux_vars, config, verdict, search_vars, channels, target_count, max_workers, futures,
                   yield_order, should_exit, engine_ret, probe_calls>>

\* as_completed(..., timeout=12) raises TimeoutError while futures are still
\* outstanding; "except Exception" catches it and control reaches finally.
AsCompletedTimeout ==
    /\ pc = "collect"
    /\ Yielded # DOMAIN futures
    /\ exit_via' = "timeout"
    /\ pc' = "shutdown"
    /\ in_time' = FALSE
    /\ UNCHANGED <<aux_vars, config, verdict, search_vars, channels, target_count, max_workers, futures,
                   yield_order, valid_channels, should_exit, engine_ret, probe_calls>>

\* finally: executor.shutdown(wait=True) joins the pool threads, which first
\* drain the work queue; then "return valid_channels".
ShutdownDone == \A i \in DOMAIN futures : futures[i] = "done"

EngineReturn ==
    /\ pc = "shutdown"
    /\ ShutdownDone
    /\ engine_ret' = valid_channels
    /\ pc' = "validated"
    /\ UNCHANGED <<aux_vars, in_time, config, verdict, search_vars, channels, target_count, max_workers, futures,
                   yield_order, valid_channels, should_exit, exit_via, probe_calls>>

\* ------------------------------------------------------------------------
\* Specification of one direct engine invocation
\* ------------------------------------------------------------------------
DefaultConfig(workers, minvalid, validation) ==
    [max_results |-> DefaultMaxResults, enable_validation |-> validation,
     enable_cache |-> TRUE, max_pages |-> DefaultMaxPages,
     concurrent_workers |-> workers, min_valid_links |-> minvalid]

NewCache(enabled) == [enabled |-> enabled, entries |-> <<>>]

\* No page fetch of a concrete searcher is in progress.
FetchIdle ==
    /\ searcher = "none"
    /\ fpc = "idle"
    /\ posts = 0
    /\ retry_count = 0
    /\ html_content = <<>>
    /\ fetch_failed = FALSE
    /\ fetch_log = <<>>
    /\ last_status = 0

\* No batch run: a processor without groups that has not started.
BatchIdle ==
    /\ bconfig = [max_workers_per_group |-> DefaultWorkersPerGroup,
                  concurrent_groups |-> DefaultConcurrentGroups]
    /\ groups = <<>>
    /\ bpc = "idle"
    /\ gidx = 0
    /\ cidx = 0
    /\ search_state = <<>>
    /\ search_outcome = <<>>
    /\ group_channels = <<>>
    /\ all_results = <<>>
    /\ delays = 0

\* No group is being searched on a shared searcher.
SharedIdle ==
    /\ unit_pc = <<>>
    /\ unit_retries = <<>>
    /\ session_headers = [ua_by |-> 0, site_by |-> 0, site |-> "none"]
    /\ last_request = <<>>
    /\ probe_pool = <<>>

\* A new DomainFrequencyProcessor and no output file.
RunIdle ==
    /\ domain_counter = [h \in 0..9 |-> 0]
    /\ output = <<>>

\* No function is exercised on its own.
FnIdle ==
    /\ fn = "none"
    /\ bucket = <<>> /\ sorted_channels = None
    /\ resolution = <<>> /\ quality = None
    /\ parser = "none" /\ page_items = <<>> /\ parsed = None
    /\ probed = None /\ kept = None

\* The registry after the import of the modules (tonkiang_searcher.py
\* registers its class at line 947) and a processor built with the default
\* configuration, whose __init__ created the first instance.
RegistryIdle ==
    /\ registry = <<[key |-> "tonkiang", value |-> "TonkiangSearcher"]>>
    /\ register_log = registry
    /\ processor = [searcher_name |-> "tonkiang",
                    searcher |-> [id |-> 1, class |-> "TonkiangSearcher"]]
    /\ created = None
    /\ instances = 1

ExtIdle == SharedIdle /\ RunIdle /\ FnIdle /\ RegistryIdle

\* No search_channels call is running and none has run.
SearchIdle ==
    /\ pc = "idle"
    /\ keyword = ""
    /\ all_channels = <<>>
    /\ page = 1
    /\ result = <<>>
    /\ calls = 0
    /\ page_requests = 0
    /\ fetch_outcome = "none"
    /\ in_time = TRUE
    /\ channels = <<>>
    /\ target_count = 0
    /\ max_workers = 0
    /\ futures = <<>>
    /\ yield_order = <<>>
    /\ valid_channels = <<>>
    /\ should_exit = FALSE
    /\ exit_via = "none"
    /\ engine_ret = <<>>
    /\ probe_calls = 0

InitCommon ==
    /\ FetchIdle
    /\ BatchIdle
    /\ ExtIdle
    /\ SearchIdle

\* A searcher built with the default configuration except for the fields the
\* engine reads; what each channel's probe does is fixed from the start.
InitEngine ==
    /\ InitCommon
    /\ \E w \in 0..MaxWorkers, m \in 0..MaxTarget, v \in BOOLEAN :
           config = DefaultConfig(w, m, v)
    /\ verdict \in [Channels -> Verdicts]
    /\ search_cache = NewCache(config.enable_cache)

\* The candidates of a direct call are the first n channel objects.
Prefix(n) == [i \in 1..n |-> i]

NextEngine ==
    \/ \E n \in 0..NumChannels, t \in 0..MaxTarget : EngineInvoke(Prefix(n), Some(t))
    \/ \E n \in 0..NumChannels : EngineInvoke(Prefix(n), None)
    \/ \E i \in DOMAIN futures : ProbeStart(i)
    \/ \E i \in DOMAIN futures, v \in Verdicts : ProbeFinish(i, v)
    \/ \E i \in DOMAIN futures, late \in BOOLEAN : Collect(i, late)
    \/ AsCompletedTimeout
    \/ EngineReturn

SpecEngine == InitEngine /\ [][NextEngine]_vars

\* The pool threads and the calling thread keep running, and the clock of the
\* as_completed timeout keeps ticking: every step that stays possible is taken.
FairSpecEngine ==
    /\ SpecEngine
    /\ WF_vars(\E i \in DOMAIN futures : ProbeStart(i))
    /\ WF_vars(\E i \in DOMAIN futures, v \in Verdicts : ProbeFinish(i, v))
    /\ WF_vars(\E i \in DOMAIN futures, late \in BOOLEAN : Collect(i, late))
    /\ WF_vars(AsCompletedTimeout)
    /\ WF_vars(EngineReturn)

\* ------------------------------------------------------------------------
\* The orchestration: BaseIPTVSearcher.search_channels
\* ------------------------------------------------------------------------

\* Truth value of self._search_cache in "if self._search_cache": None and the
\* empty dict are both false.
CacheTruthy(cache) == cache.enabled /\ DOMAIN cache.entries # {}

CacheStore(cache, k, list) ==
    [cache EXCEPT !.entries =
        [x \in DOMAIN cache.entries \cup {k} |-> IF x = k THEN list ELSE cache.entries[x]]]

\* The de-duplication loop: keep a channel when its url was not seen before.
RECURSIVE DedupFrom(_, _, _)
DedupFrom(list, seen_urls, unique_channels) ==
    IF list = <<>> THEN unique_channels
    ELSE IF UrlOf(Head(list)) \notin seen_urls
         THEN DedupFrom(Tail(list), seen_urls \cup {UrlOf(Head(list))},
                        Append(unique_channels, Head(list)))
         ELSE DedupFrom(Tail(list), seen_urls, unique_channels)

\* Mutant of Dedup: the de-duplication is skipped.
Dedup_Skipped(list) == list

Dedup(list) == DedupFrom(list, {}, <<>>)

\* Mutant of FinalChannels: the truncation to max_results is left out.
FinalChannels_NoTruncation(list) == Dedup(list)

\* final_channels = unique_channels[:max_results]
FinalChannels(list) == PySlice(Dedup(list), config.max_results)

EngineFrameCleared ==
    /\ channels' = <<>>
    /\ target_count' = 0
    /\ max_workers' = 0
    /\ futures' = <<>>
    /\ yield_order' = <<>>
    /\ valid_channels' = <<>>
    /\ should_exit' = FALSE
    /\ exit_via' = "none"
    /\ engine_ret' = <<>>

\* Call of search_channels(k): the cache check and the initialisation.
SearchStart(k) ==
    /\ pc \in {"idle", "returned"}
    /\ calls < MaxSearches
    /\ calls' = calls + 1
    /\ keyword' = k
    /\ page_requests' = 0
    /\ fetch_outcome' = "none"
    /\ in_time' = TRUE
    /\ probe_calls' = 0
    /\ IF CacheTruthy(search_cache) /\ k \in DOMAIN search_cache.entries
       THEN /\ result' = PySlice(search_cache.entries[k], config.max_results)
            /\ pc' = "returned"
            /\ UNCHANGED <<all_channels, page>>
       ELSE /\ all_channels' = <<>>
            /\ page' = 1
            /\ pc' = "loop"
            /\ result' = <<>>
    /\ UNCHANGED <<aux_vars, config, verdict, search_cache, channels, target_count, max_workers, futures,
                   yield_order, valid_channels, should_exit, exit_via, engine_ret>>

\* Mutant of LoopCondition: the page bound is left out.
LoopCondition_NoPageBound == Len(all_channels) < config.max_results

LoopCondition == Len(all_channels) < config.max_results /\ page <= config.max_pages

\* Mutant of CaughtAt: the engine call is not covered by the handler.
CaughtAt_Uncaught == "raised"

\* Where an exception that leaves _validate_links_concurrent lands: in the
\* "except Exception" of the paging loop, which breaks out of the loop.
CaughtAt == "finish"

\* What one pass of the while body found: the request raised, the parse raised,
\* the page parsed to no candidate ("empty"), or it parsed to some ("ok").
OutcomeOf(outcome, page_channels) ==
    IF outcome = "ok" /\ page_channels = <<>> THEN "empty" ELSE outcome

\* Mutant of RequestFailed: the handler goes on with the next page.
RequestFailed_Continues ==
    /\ pc' = "loop"
    /\ page' = page + 1
    /\ UNCHANGED <<all_channels, engine_vars>>

\* "except Exception as e: ... break": the request or the parse raised.
RequestFailed ==
    /\ pc' = "finish"
    /\ UNCHANGED <<all_channels, page, engine_vars>>

\* One pass of the while body up to the call of the engine: the page request,
\* the parse and the branch on enable_validation.  outcome is what the site
\* and the parser do, page_channels the parsed candidates.
RequestPage(outcome, page_channels) ==
    /\ pc = "loop"
    /\ LoopCondition
    /\ page_requests' = page_requests + 1
    /\ fetch_outcome' = OutcomeOf(outcome, page_channels)
    /\ IF outcome # "ok"
       THEN RequestFailed
       ELSE IF page_channels = <<>>
       THEN \* "if not page_channels: break"
            /\ pc' = "finish"
            /\ UNCHANGED <<all_channels, page, engine_vars>>
       ELSE IF config.enable_validation
       THEN LET remaining_needed == Max(0, config.min_valid_links - Len(all_channels))
            IN IF remaining_needed > 0
               THEN /\ ValidateEntry(page_channels, Some(remaining_needed), "validated", CaughtAt)
                    /\ UNCHANGED <<all_channels, page, probe_calls>>
               ELSE /\ pc' = "finish"
                    /\ UNCHANGED <<all_channels, page, engine_vars>>
       ELSE /\ all_channels' = all_channels \o page_channels
            /\ page' = page + 1
            /\ pc' = "loop"
            /\ UNCHANGED engine_vars
    /\ UNCHANGED <<aux_vars, in_time, config, verdict, search_cache, keyword, result, calls>>

\* The engine has returned into search_channels: extend, test the target,
\* advance the page.
AfterValidate ==
    /\ pc = "validated"
    /\ all_channels' = all_channels \o engine_ret
    /\ IF Len(all_channels \o engine_ret) >= config.min_valid_links
       THEN /\ pc' = "finish"
            /\ UNCHANGED page
       ELSE /\ pc' = "loop"
            /\ page' = page + 1
    /\ EngineFrameCleared
    /\ UNCHANGED <<aux_vars, in_time, config, verdict, search_cache, keyword, result, calls, page_requests,
                   fetch_outcome, probe_calls>>

\* After the while loop: de-duplicate, truncate, store in the cache, return.
Finish ==
    /\ \/ pc = "finish"
       \/ pc = "loop" /\ ~LoopCondition
    /\ result' = FinalChannels(all_channels)
    /\ search_cache' = IF CacheTruthy(search_cache)
                       THEN CacheStore(search_cache, keyword, FinalChannels(all_channels))
                       ELSE search_cache
    /\ pc' = "returned"
    /\ UNCHANGED <<aux_vars, in_time, config, verdict, keyword, all_channels, page, calls, page_requests,
                   fetch_outcome, engine_vars>>

\* ------------------------------------------------------------------------
\* Specification of a searcher that is asked to search
\* ------------------------------------------------------------------------
PageOutcomes == {"ok", "request_raises", "parse_raises"}

\* A searcher built with any configuration; what a channel's probe does is
\* fixed by its first probe (ProbeFinish).
Init ==
    /\ InitCommon
    /\ config \in [max_results : 1..MaxResults, enable_validation : BOOLEAN,
                    enable_cache : BOOLEAN, max_pages : 1..MaxPages,
                    concurrent_workers : 0..MaxWorkers, min_valid_links : 0..MaxTarget]
    /\ verdict = [c \in Channels |-> "unset"]
    /\ search_cache = NewCache(config.enable_cache)

Next ==
    \/ \E k \in KeywordSet : SearchStart(k)
    \/ \E o \in PageOutcomes, p \in PageLists : RequestPage(o, p)
    \/ \E i \in DOMAIN futures : ProbeStart(i)
    \/ \E i \in DOMAIN futures, v \in Verdicts : ProbeFinish(i, v)
    \/ \E i \in DOMAIN futures, late \in BOOLEAN : Collect(i, late)
    \/ AsCompletedTimeout
    \/ EngineReturn
    \/ AfterValidate
    \/ Finish

Spec == Init /\ [][Next]_vars

\* ------------------------------------------------------------------------
\* The concrete searchers: _send_search_request and _parse_search_results of
\* TonkiangSearcher, ExampleSearcher and AnotherExampleSearcher, and what the
\* paging loop of search_channels sees of them
\* ------------------------------------------------------------------------
Searchers == {"tonkiang", "example", "another"}

\* Status codes of a response: success, a redirect that is not followed,
\* a client error, service unavailable.
StatusCodes == {200, 302, 404, 503}

\* Response bodies: empty, a page without a matching link, a page with one.
Bodies == {"", "nomatch", "match"}

\* The candidates a parser finds in a body.
MatchesIn(text) == IF text = "match" THEN <<1>> ELSE <<>>

\* "return ...": the value and whether the fetch failed.
Return(value, failed) ==
    /\ html_content' = value
    /\ fetch_failed' = failed
    /\ fpc' = "returned"

\* The paging loop calls _send_search_request of the searcher s.
SendStart(s) ==
    /\ fpc = "idle"
    /\ Len(fetch_log) < MaxFetches
    /\ searcher' = s
    /\ fpc' = IF s = "tonkiang" THEN "homepage" ELSE "request"
    /\ posts' = 0
    /\ retry_count' = 0
    /\ html_content' = None
    /\ fetch_failed' = FALSE
    /\ last_status' = 0
    /\ UNCHANGED <<core_vars, batch_vars, ext_vars, fetch_log>>

\* TonkiangSearcher: the warm-up GET of the home page; its status is only
\* logged, an exception goes to the outer handler, which returns None.
TkHomepage(raises) ==
    /\ fpc = "homepage"
    /\ IF raises THEN Return(None, TRUE)
                 ELSE /\ fpc' = "post"
                      /\ UNCHANGED <<html_content, fetch_failed>>
    /\ UNCHANGED <<core_vars, batch_vars, ext_vars, searcher, posts, retry_count, fetch_log,
                   last_status>>

\* TonkiangSearcher: the search POST and the branch on its status code.
TkPost(raises, status, text) ==
    /\ fpc = "post"
    /\ posts' = posts + 1
    /\ IF raises THEN Return(None, TRUE)
       ELSE IF status = 200 THEN Return(Some(text), FALSE)
       ELSE IF status = 503
            THEN /\ fpc' = "retry"
                 /\ UNCHANGED <<html_content, fetch_failed>>
       ELSE Return(Some(""), TRUE)
    /\ last_status' = IF raises THEN 0 ELSE status
    /\ UNCHANGED <<core_vars, batch_vars, ext_vars, searcher, retry_count, fetch_log>>

\* TonkiangSearcher: one pass of "for retry_count in range(3)".
TkRetry(raises, status, text) ==
    /\ fpc = "retry"
    /\ retry_count < MaxRetries
    /\ posts' = posts + 1
    /\ IF raises \/ status = 503
       THEN \* "continue" / the next pass
            /\ retry_count' = retry_count + 1
            /\ UNCHANGED <<fpc, html_content, fetch_failed>>
       ELSE IF status = 200
       THEN /\ Return(Some(text), FALSE)
            /\ UNCHANGED retry_count
       ELSE \* "break", then "return None"
            /\ Return(None, TRUE)
            /\ UNCHANGED retry_count
    /\ last_status' = IF raises THEN 0 ELSE status
    /\ UNCHANGED <<core_vars, batch_vars, ext_vars, searcher, fetch_log>>

\* Mutant of TkGiveUp: the retry loop is started over.
TkGiveUp_StartsOver ==
    /\ fpc = "retry"
    /\ retry_count = MaxRetries
    /\ retry_count' = 0
    /\ UNCHANGED <<core_vars, batch_vars, ext_vars, searcher, fpc, posts, html_content,
                   fetch_failed, fetch_log, last_status>>

\* TonkiangSearcher: the retries are used up, "return None".
TkGiveUp ==
    /\ fpc = "retry"
    /\ retry_count = MaxRetries
    /\ Return(None, TRUE)
    /\ UNCHANGED <<core_vars, batch_vars, ext_vars, searcher, posts, retry_count, fetch_log,
                   last_status>>

\* ExampleSearcher and AnotherExampleSearcher: the request,
\* raise_for_status (which raises for 4xx and 5xx) and the return.
ExRequest(raises, status, text) ==
    /\ fpc = "request"
    /\ posts' = posts + 1
    /\ IF raises \/ status >= 400 THEN Return(Some(""), TRUE)
       ELSE IF status = 200 \/ searcher = "another" THEN Return(Some(text), status # 200)
       ELSE Return(Some(""), TRUE)
    /\ last_status' = IF raises THEN 0 ELSE status
    /\ UNCHANGED <<core_vars, batch_vars, ext_vars, searcher, retry_count, fetch_log>>

\* _parse_search_results of the searcher s applied to the returned value.
ParseOf(s, content) ==
    IF content = None THEN <<>>          \* "if html_content is None"
    ELSE IF content[1] = "" THEN <<>>    \* blank input: no candidate
    ELSE MatchesIn(content[1])

\* The branch the paging loop takes on the parsed page.
LoopBranch(page_channels) ==
    IF page_channels = <<>> THEN "no_results_break" ELSE "page_accepted"

\* The caller parses the returned value and takes its branch; the pass is
\* recorded.
ParseAndBranch ==
    /\ fpc = "returned"
    /\ fetch_log' = Append(fetch_log,
                           [searcher |-> searcher, failed |-> fetch_failed,
                            html_content |-> html_content, posts |-> posts,
                            page_channels |-> ParseOf(searcher, html_content),
                            branch |-> LoopBranch(ParseOf(searcher, html_content))])
    /\ fpc' = "idle"
    /\ UNCHANGED <<core_vars, batch_vars, ext_vars, searcher, posts, retry_count, html_content,
                   fetch_failed, last_status>>

\* An idle searcher with the default configuration.
CoreIdle ==
    /\ config = DefaultConfig(DefaultWorkers, DefaultMinValidLinks, TRUE)
    /\ verdict = [c \in Channels |-> "unset"]
    /\ search_cache = NewCache(config.enable_cache)

InitFetch == InitCommon /\ CoreIdle

NextFetch ==
    \/ \E s \in Searchers : SendStart(s)
    \/ \E r \in BOOLEAN : TkHomepage(r)
    \/ \E r \in BOOLEAN, st \in StatusCodes, b \in Bodies : TkPost(r, st, b)
    \/ \E r \in BOOLEAN, st \in StatusCodes, b \in Bodies : TkRetry(r, st, b)
    \/ TkGiveUp
    \/ \E r \in BOOLEAN, st \in StatusCodes, b \in Bodies : ExRequest(r, st, b)
    \/ ParseAndBranch

SpecFetch == InitFetch /\ [][NextFetch]_vars

\* ------------------------------------------------------------------------
\* The batch processor: ModularBatchProcessor.process_all_groups,
\* process_group_concurrent and process_single_channel
\* ------------------------------------------------------------------------
ChannelNames == {"CCTV-1", "CCTV-2"}
GroupNames == <<"G1", "G2">>

\* What searcher.search_channels does for one channel name: it returns
\* links or it raises.  (A search that returns the empty list leaves the same
\* entry as one that raises.)
SearchOutcomes == {"links", "raises"}

NameLists == UNION {[1..n -> ChannelNames] : n \in 1..MaxGroupLen}

\* Lists of ChannelGroup objects as parse_channel_file builds them: every
\* group has at least one channel.
GroupLists ==
    UNION {{[g \in 1..n |-> [name |-> GroupNames[g], channels |-> cl[g]]] :
               cl \in [1..n -> NameLists]} : n \in 1..MaxGroups}

\* A dict is the list of its items in insertion order, as Python keeps it.
DictKeys(d) == {d[i].key : i \in DOMAIN d}
DictHas(d, key) == key \in DictKeys(d)
DictGet(d, key) == d[CHOOSE i \in DOMAIN d : d[i].key = key].value

\* d[key] = value on a dict: a new key goes to the end, a known key keeps
\* its place.
DictSet(d, key, value) ==
    IF DictHas(d, key)
    THEN [i \in DOMAIN d |-> IF d[i].key = key THEN [key |-> key, value |-> value]
                                               ELSE d[i]]
    ELSE Append(d, [key |-> key, value |-> value])

\* process_single_channel: the list of the searcher, [] when it raised.
\* The links found for channel i of group g are two, numbered 100g + 10i + 1
\* and 100g + 10i + 2; a link's number stands for its url.
ProcessSingleChannel(outcome, g, i) ==
    IF outcome = "links" THEN <<100 * g + 10 * i + 1, 100 * g + 10 * i + 2>> ELSE <<>>

\* Mutant of Store: an empty list is not entered.
Store_SkipsEmpty(d, channel_name, chs) ==
    IF chs = <<>> THEN d ELSE DictSet(d, channel_name, chs)

\* group_channels[channel_name] = channels
Store(d, channel_name, chs) == DictSet(d, channel_name, chs)

CurrentGroup == groups[gidx]
NumCurrent == Len(CurrentGroup.channels)
RunningIn(g) == {i \in DOMAIN search_state[g] : search_state[g][i] = "running"}

SetState(g, i, st) == search_state' = [search_state EXCEPT ![g][i] = st]
SetOutcome(g, i, o) == search_outcome' = [search_outcome EXCEPT ![g][i] = o]

\* process_all_groups is called: all_results = {} and the loop starts.
ProcessAllGroups ==
    /\ bpc = "idle"
    /\ groups # <<>>
    /\ bpc' = "loop"
    /\ gidx' = 1
    /\ all_results' = <<>>
    /\ UNCHANGED <<core_vars, fetch_vars, ext_vars, bconfig, groups, cidx, search_state,
                   search_outcome, group_channels, delays>>

\* The loop takes the next group and calls process_group_concurrent, which
\* chooses the serial mode or builds the pool and submits every channel.
GroupEnter ==
    /\ bpc = "loop"
    /\ gidx <= Len(groups)
    /\ group_channels' = <<>>
    /\ delays' = 0
    /\ IF bconfig.max_workers_per_group = 1
       THEN /\ bpc' = "serial"
            /\ cidx' = 1
            /\ UNCHANGED search_state
       ELSE IF bconfig.max_workers_per_group <= 0
       THEN \* ThreadPoolExecutor raises ValueError; nothing catches it here
            /\ bpc' = "raised"
            /\ UNCHANGED <<cidx, search_state>>
       ELSE /\ bpc' = "pool"
            /\ search_state' = [search_state EXCEPT
                                  ![gidx] = [i \in 1..NumCurrent |-> "queued"]]
            /\ UNCHANGED cidx
    /\ UNCHANGED <<core_vars, fetch_vars, ext_vars, bconfig, groups, gidx, search_outcome, all_results>>

\* Serial mode: process_single_channel of channel cidx starts.
SerialSearchStart ==
    /\ bpc = "serial"
    /\ search_state[gidx][cidx] = "pending"
    /\ SetState(gidx, cidx, "running")
    /\ UNCHANGED <<core_vars, fetch_vars, ext_vars, bconfig, groups, bpc, gidx, cidx, search_outcome,
                   group_channels, all_results, delays>>

\* Mutant of NeedsDelay: the sleep follows every channel.
NeedsDelay_AfterEvery(i, n) == TRUE

\* "if i < len(group.channels)": not the last channel.
NeedsDelay(i, n) == i < n

\* The for loop of the serial mode goes on with the next channel or ends.
Advance ==
    IF cidx < NumCurrent
    THEN cidx' = cidx + 1 /\ bpc' = "serial"
    ELSE cidx' = cidx /\ bpc' = "group_end"

\* Serial mode: the search returns or raises, the result is entered, and the
\* loop reaches the sleep or its next pass.
SerialSearchEnd(outcome) ==
    /\ bpc = "serial"
    /\ search_state[gidx][cidx] = "running"
    /\ SetState(gidx, cidx, "collected")
    /\ SetOutcome(gidx, cidx, outcome)
    /\ group_channels' = Store(group_channels, CurrentGroup.channels[cidx],
                               ProcessSingleChannel(outcome, gidx, cidx))
    /\ IF NeedsDelay(cidx, NumCurrent)
       THEN bpc' = "delay" /\ cidx' = cidx
       ELSE Advance
    /\ UNCHANGED <<core_vars, fetch_vars, ext_vars, bconfig, groups, gidx, all_results, delays>>

\* Serial mode: time.sleep(random.uniform(2.0, 5.0)) is over.
SerialDelay ==
    /\ bpc = "delay"
    /\ delays' = delays + 1
    /\ Advance
    /\ UNCHANGED <<core_vars, fetch_vars, ext_vars, bconfig, groups, gidx, search_state,
                   search_outcome, group_channels, all_results>>

\* Pool mode: a pool thread takes the oldest queued task.  The pool has at
\* most max_workers_per_group threads.
PoolSearchStart(i) ==
    /\ bpc = "pool"
    /\ i \in 1..NumCurrent
    /\ search_state[gidx][i] = "queued"
    /\ \A j \in 1..(i - 1) : search_state[gidx][j] # "queued"
    /\ Cardinality(RunningIn(gidx)) < bconfig.max_workers_per_group
    /\ SetState(gidx, i, "running")
    /\ UNCHANGED <<core_vars, fetch_vars, ext_vars, bconfig, groups, bpc, gidx, cidx, search_outcome,
                   group_channels, all_results, delays>>

\* Pool mode: process_single_channel of channel i returns in its thread.
PoolSearchEnd(i, outcome) ==
    /\ bpc = "pool"
    /\ i \in 1..NumCurrent
    /\ search_state[gidx][i] = "running"
    /\ SetState(gidx, i, "finished")
    /\ SetOutcome(gidx, i, outcome)
    /\ UNCHANGED <<core_vars, fetch_vars, ext_vars, bconfig, groups, bpc, gidx, cidx,
                   group_channels, all_results, delays>>

\* Pool mode: as_completed yields the future of channel i and the loop body
\* enters its result.
PoolCollect(i) ==
    /\ bpc = "pool"
    /\ i \in 1..NumCurrent
    /\ search_state[gidx][i] = "finished"
    /\ SetState(gidx, i, "collected")
    /\ group_channels' = Store(group_channels, CurrentGroup.channels[i],
                               ProcessSingleChannel(search_outcome[gidx][i], gidx, i))
    /\ UNCHANGED <<core_vars, fetch_vars, ext_vars, bconfig, groups, bpc, gidx, cidx, search_outcome,
                   all_results, delays>>

\* Mutant of PoolFinished: the pool is left without waiting for its tasks.
PoolFinished_NoWait == TRUE

\* as_completed (no timeout) is exhausted and the with block has joined the
\* pool: every task was collected.
PoolFinished == \A i \in 1..NumCurrent : search_state[gidx][i] = "collected"

\* process_group_concurrent returns; all_results[group.name] = group_result
\* and the loop goes to the next group.
GroupReturn ==
    /\ \/ bpc = "group_end"
       \/ bpc = "pool" /\ PoolFinished
    /\ all_results' = DictSet(all_results, CurrentGroup.name, group_channels)
    /\ gidx' = gidx + 1
    /\ bpc' = "loop"
    /\ UNCHANGED <<core_vars, fetch_vars, ext_vars, bconfig, groups, cidx, search_state,
                   search_outcome, group_channels, delays>>

\* The loop is over: return all_results.
AllGroupsDone ==
    /\ bpc = "loop"
    /\ gidx > Len(groups)
    /\ bpc' = "done"
    /\ UNCHANGED <<core_vars, fetch_vars, ext_vars, bconfig, groups, gidx, cidx, search_state,
                   search_outcome, group_channels, all_results, delays>>

\* A processor whose input file was parsed into groups.
InitBatch ==
    /\ FetchIdle
    /\ CoreIdle
    /\ ExtIdle
    /\ pc = "idle" /\ keyword = "" /\ all_channels = <<>> /\ page = 1 /\ result = <<>>
    /\ calls = 0 /\ page_requests = 0 /\ fetch_outcome = "none" /\ in_time = TRUE
    /\ channels = <<>> /\ target_count = 0 /\ max_workers = 0 /\ futures = <<>>
    /\ yield_order = <<>> /\ valid_channels = <<>> /\ should_exit = FALSE
    /\ exit_via = "none" /\ engine_ret = <<>> /\ probe_calls = 0
    /\ bconfig \in [max_workers_per_group : 0..MaxGroupWorkers,
                     concurrent_groups : 1..MaxConcurrentGroups]
    /\ groups \in GroupLists
    /\ bpc = "idle"
    /\ gidx = 0
    /\ cidx = 0
    /\ search_state = [g \in DOMAIN groups |-> [i \in DOMAIN groups[g].channels |-> "pending"]]
    /\ search_outcome = [g \in DOMAIN groups |-> [i \in DOMAIN groups[g].channels |-> "unset"]]
    /\ group_channels = <<>>
    /\ all_results = <<>>
    /\ delays = 0

NextBatch ==
    \/ ProcessAllGroups
    \/ GroupEnter
    \/ SerialSearchStart
    \/ \E o \in SearchOutcomes : SerialSearchEnd(o)
    \/ SerialDelay
    \/ \E i \in 1..MaxGroupLen : PoolSearchStart(i)
    \/ \E i \in 1..MaxGroupLen, o \in SearchOutcomes : PoolSearchEnd(i, o)
    \/ \E i \in 1..MaxGroupLen : PoolCollect(i)
    \/ GroupReturn
    \/ AllGroupsDone

SpecBatch == InitBatch /\ [][NextBatch]_vars

\* ------------------------------------------------------------------------
\* One searcher shared by the searches of a group
\*   modular_batch_processor.py  ModularBatchProcessor.__init__,
\*                               process_single_channel, process_group_concurrent
\*   tonkiang_searcher.py        _send_search_request, _validate_m3u8_quality
\* The processor builds one searcher; every process_single_channel call of
\* the group pool runs search_channels on it, and every probe of every
\* validation pool sends through its one session.  A unit is one
\* process_single_channel call; each searches one page.
\* ------------------------------------------------------------------------
\* ProcessorConfig.to_search_config
to_search_config(b) ==
    DefaultConfig(b.max_workers_per_group, ProcessorMinValidLinks, TRUE)

Units == DOMAIN unit_pc
ActiveUnits == {u \in Units : unit_pc[u] \notin {"queued", "done"}}

InFlightOf(u) == Cardinality({j \in DOMAIN probe_pool[u] : probe_pool[u][j] = "running"})

RECURSIVE InFlightOver(_)
InFlightOver(S) ==
    IF S = {} THEN 0
    ELSE LET u == CHOOSE v \in S : TRUE IN InFlightOf(u) + InFlightOver(S \ {u})

TotalInFlight == InFlightOver(Units)

\* What a request sent by unit u through self.session carries: the session's
\* headers as they are at the moment of sending.
Request(u, kind) ==
    [unit |-> u, kind |-> kind, ua_by |-> session_headers.ua_by,
     site_by |-> session_headers.site_by, site |-> session_headers.site]

Send(u, kind) == last_request' = [last_request EXCEPT ![u] = Some(Request(u, kind))]
SetUnit(u, value) == unit_pc' = [unit_pc EXCEPT ![u] = value]

\* A worker of the group pool (or the serial loop) takes the next channel.
UnitStart(u) ==
    /\ u \in Units
    /\ unit_pc[u] = "queued"
    /\ \A v \in Units : v < u => unit_pc[v] # "queued"
    /\ Cardinality(ActiveUnits) < bconfig.max_workers_per_group
    /\ SetUnit(u, "started")
    /\ UNCHANGED <<core_vars, fetch_vars, batch_vars, unit_retries, session_headers,
                   last_request, probe_pool, run_vars, fn_vars,
                   registry_vars>>

\* _send_search_request: session.headers.update with a new User-Agent, an
\* empty Referer and Sec-Fetch-Site none.
WarmHeaders(u) ==
    /\ u \in Units
    /\ unit_pc[u] = "started"
    /\ session_headers' = [ua_by |-> u, site_by |-> u, site |-> "none"]
    /\ SetUnit(u, "homepage")
    /\ UNCHANGED <<core_vars, fetch_vars, batch_vars, run_vars, fn_vars, registry_vars,
                   unit_retries, last_request,
                   probe_pool>>

\* _send_search_request: session.get(base_url); an exception ends the call.
HomepageGet(u, raises) ==
    /\ u \in Units
    /\ unit_pc[u] = "homepage"
    /\ Send(u, "homepage")
    /\ SetUnit(u, IF raises THEN "done" ELSE "visited")
    /\ UNCHANGED <<core_vars, fetch_vars, batch_vars, run_vars, fn_vars, registry_vars,
                   unit_retries, session_headers,
                   probe_pool>>

\* _send_search_request: session.headers.update with the Referer, Origin and
\* Sec-Fetch-* of a form submitted from the home page.
FormHeaders(u) ==
    /\ u \in Units
    /\ unit_pc[u] = "visited"
    /\ session_headers' = [session_headers EXCEPT !.site_by = u, !.site = "same-origin"]
    /\ SetUnit(u, "post")
    /\ UNCHANGED <<core_vars, fetch_vars, batch_vars, run_vars, fn_vars, registry_vars,
                   unit_retries, last_request,
                   probe_pool>>

\* The page came back with n candidates: the validation pool of the unit is
\* created and every candidate submitted.
Submit(u, n) ==
    /\ probe_pool' = [probe_pool EXCEPT ![u] = [j \in 1..n |-> "queued"]]
    /\ SetUnit(u, IF n = 0 THEN "done" ELSE "validate")

\* _send_search_request: session.post of the search form, or of a retry.
SearchPost(u, outcome, n) ==
    /\ u \in Units
    /\ unit_pc[u] = "post"
    /\ Send(u, "search")
    /\ CASE outcome = "ok" -> Submit(u, n) /\ UNCHANGED unit_retries
         [] outcome = "blocked" /\ unit_retries[u] < MaxRetries ->
                /\ SetUnit(u, "retry")
                /\ UNCHANGED <<unit_retries, probe_pool>>
         [] OTHER -> SetUnit(u, "done") /\ UNCHANGED <<unit_retries, probe_pool>>
    /\ UNCHANGED <<core_vars, fetch_vars, batch_vars, run_vars, fn_vars, registry_vars,
                   session_headers>>

\* _send_search_request, one pass of the retry loop up to its request:
\* session.headers.update with a new User-Agent.
RetryHeaders(u) ==
    /\ u \in Units
    /\ unit_pc[u] = "retry"
    /\ session_headers' = [session_headers EXCEPT !.ua_by = u]
    /\ unit_retries' = [unit_retries EXCEPT ![u] = @ + 1]
    /\ SetUnit(u, "post")
    /\ UNCHANGED <<core_vars, fetch_vars, batch_vars, run_vars, fn_vars, registry_vars,
                   last_request, probe_pool>>

\* A worker of the unit's validation pool takes a queued probe; the probe
\* sends session.get(url).
SharedProbeStart(u, j) ==
    /\ u \in Units
    /\ unit_pc[u] = "validate"
    /\ j \in DOMAIN probe_pool[u]
    /\ probe_pool[u][j] = "queued"
    /\ InFlightOf(u) < MaxWorkersOf(probe_pool[u])
    /\ probe_pool' = [probe_pool EXCEPT ![u][j] = "running"]
    /\ Send(u, "probe")
    /\ UNCHANGED <<core_vars, fetch_vars, batch_vars, run_vars, fn_vars, registry_vars,
                   unit_pc, unit_retries,
                   session_headers>>

SharedProbeFinish(u, j) ==
    /\ u \in Units
    /\ unit_pc[u] = "validate"
    /\ j \in DOMAIN probe_pool[u]
    /\ probe_pool[u][j] = "running"
    /\ probe_pool' = [probe_pool EXCEPT ![u][j] = "done"]
    /\ UNCHANGED <<core_vars, fetch_vars, batch_vars, run_vars, fn_vars, registry_vars,
                   unit_pc, unit_retries,
                   session_headers, last_request>>

\* The validation pool is shut down and process_single_channel returns.
UnitReturn(u) ==
    /\ u \in Units
    /\ unit_pc[u] = "validate"
    /\ \A j \in DOMAIN probe_pool[u] : probe_pool[u][j] = "done"
    /\ SetUnit(u, "done")
    /\ UNCHANGED <<core_vars, fetch_vars, batch_vars, unit_retries, session_headers,
                   last_request, probe_pool, run_vars, fn_vars,
                   registry_vars>>

\* A processor with max_workers_per_group >= 1 and a group of one or more
\* channels, its searcher built from to_search_config.
InitShared ==
    /\ FetchIdle
    /\ SearchIdle
    /\ bconfig \in [max_workers_per_group : 1..MaxGroupWorkers,
                     concurrent_groups : {DefaultConcurrentGroups}]
    /\ config = to_search_config(bconfig)
    /\ verdict = [c \in Channels |-> "unset"]
    /\ search_cache = NewCache(config.enable_cache)
    /\ groups = <<>> /\ bpc = "idle" /\ gidx = 0 /\ cidx = 0
    /\ search_state = <<>> /\ search_outcome = <<>>
    /\ group_channels = <<>> /\ all_results = <<>> /\ delays = 0
    /\ \E n \in 1..MaxUnits :
          /\ unit_pc = [u \in 1..n |-> "queued"]
          /\ unit_retries = [u \in 1..n |-> 0]
          /\ probe_pool = [u \in 1..n |-> <<>>]
          /\ last_request = [u \in 1..n |-> None]
    /\ session_headers = [ua_by |-> 0, site_by |-> 0, site |-> "none"]
    /\ RunIdle
    /\ FnIdle
    /\ RegistryIdle

NextShared ==
    \/ \E u \in 1..MaxUnits : UnitStart(u)
    \/ \E u \in 1..MaxUnits : WarmHeaders(u)
    \/ \E u \in 1..MaxUnits, r \in BOOLEAN : HomepageGet(u, r)
    \/ \E u \in 1..MaxUnits : FormHeaders(u)
    \/ \E u \in 1..MaxUnits, o \in {"ok", "blocked", "failed"}, n \in 0..MaxPageLen :
          SearchPost(u, o, n)
    \/ \E u \in 1..MaxUnits : RetryHeaders(u)
    \/ \E u \in 1..MaxUnits, j \in 1..MaxPageLen : SharedProbeStart(u, j)
    \/ \E u \in 1..MaxUnits, j \in 1..MaxPageLen : SharedProbeFinish(u, j)
    \/ \E u \in 1..MaxUnits : UnitReturn(u)

SpecShared == InitShared /\ [][NextShared]_vars

\* ------------------------------------------------------------------------
\* The run of the batch processor after the groups
\*   modular_batch_processor.py  ModularBatchProcessor.run,
\*                               DomainFrequencyProcessor, ResultFormatter
\* ------------------------------------------------------------------------
\* extract_domain_or_ip: the host of a link's url.  Of the two links of a
\* channel the first is on a host of its own position i, the second on host 9,
\* which serves every channel.  Hosts are ordered as their strings are.
extract_domain_or_ip(url) == IF url % 10 = 2 THEN 9 ELSE (url \div 10) % 10

\* The lists of an aggregate, in the order all_results.items() and
\* group_channels.items() yield them.
RECURSIVE ValuesOf(_)
ValuesOf(d) == IF d = <<>> THEN <<>> ELSE <<Head(d).value>> \o ValuesOf(Tail(d))

RECURSIVE Concat(_)
Concat(ss) == IF ss = <<>> THEN <<>> ELSE Head(ss) \o Concat(Tail(ss))

ChannelLists(results) == Concat([k \in DOMAIN results |-> ValuesOf(results[k].value)])

\* Mutant of CountInto: a host is counted once however many links it has.
RECURSIVE CountInto_OncePerHost(_, _)
CountInto_OncePerHost(counter, links) ==
    IF links = <<>> THEN counter
    ELSE CountInto_OncePerHost(
             [counter EXCEPT ![extract_domain_or_ip(Head(links))] = 1], Tail(links))

\* collect_domain_stats: domain_counter[domain] += 1 for each link.
RECURSIVE CountInto(_, _)
CountInto(counter, links) ==
    IF links = <<>> THEN counter
    ELSE CountInto([counter EXCEPT ![extract_domain_or_ip(Head(links))] = @ + 1],
                   Tail(links))

\* Mutant of SortKeyBefore: the rarer host first.
SortKeyBefore_Ascending(counter, a, b) ==
    \/ counter[extract_domain_or_ip(a)] < counter[extract_domain_or_ip(b)]
    \/ /\ counter[extract_domain_or_ip(a)] = counter[extract_domain_or_ip(b)]
       /\ extract_domain_or_ip(a) < extract_domain_or_ip(b)

\* sort_key: (-frequency, domain) of a is below that of b.
SortKeyBefore(counter, a, b) ==
    \/ counter[extract_domain_or_ip(a)] > counter[extract_domain_or_ip(b)]
    \/ /\ counter[extract_domain_or_ip(a)] = counter[extract_domain_or_ip(b)]
       /\ extract_domain_or_ip(a) < extract_domain_or_ip(b)

\* sorted(): x is put behind every element whose key is not above its own, so
\* elements of equal key keep the order they came in.
RECURSIVE InsertStable(_, _, _)
InsertStable(counter, sorted, x) ==
    IF sorted = <<>> THEN <<x>>
    ELSE IF SortKeyBefore(counter, x, Head(sorted))
         THEN <<x>> \o sorted
         ELSE <<Head(sorted)>> \o InsertStable(counter, Tail(sorted), x)

RECURSIVE SortFrom(_, _, _)
SortFrom(counter, sorted, rest) ==
    IF rest = <<>> THEN sorted
    ELSE SortFrom(counter, InsertStable(counter, sorted, Head(rest)), Tail(rest))

\* Mutant of sort_channels_by_domain_frequency: only the best link is kept.
sort_channels_by_domain_frequency_BestOnly(counter, chs) ==
    IF chs = <<>> THEN chs ELSE <<SortFrom(counter, <<>>, chs)[1]>>

sort_channels_by_domain_frequency(counter, chs) == SortFrom(counter, <<>>, chs)

\* The url of the timestamp entry when no channel has a link.
Placeholder == 0

\* _get_first_valid_channel_url
RECURSIVE FirstValidOf(_)
FirstValidOf(lists) ==
    IF lists = <<>> THEN Placeholder
    ELSE IF Head(lists) # <<>> THEN Head(lists)[1]
    ELSE FirstValidOf(Tail(lists))

GenreRow(name) == [kind |-> "genre", name |-> name]
TimestampRow(url) == [kind |-> "timestamp", url |-> url]
\* A link row, with the place (g, i) of the input channel it is written for.
LinkRows(g, i, chs) == [k \in DOMAIN chs |-> [kind |-> "link", g |-> g, i |-> i, url |-> chs[k]]]

\* Mutant of ChannelOrder: the channels in the order of the aggregate, as
\* the branch without original_groups writes them.
ChannelOrder_AsCompleted(names, gc) ==
    [k \in DOMAIN gc |-> CHOOSE i \in DOMAIN names : names[i] = gc[k].key]

\* "for channel_name in group.channels": the input positions in turn.
ChannelOrder(names, gc) == [k \in DOMAIN names |-> k]

\* write_results_to_file, the rows of one group's channels.
RECURSIVE WriteChannels(_, _, _, _, _)
WriteChannels(counter, g, gc, order, k) ==
    IF k > Len(order) THEN <<>>
    ELSE LET i == order[k]
             channel_name == groups[g].channels[i]
             chs == IF DictHas(gc, channel_name) THEN DictGet(gc, channel_name) ELSE <<>>
         IN LinkRows(g, i, sort_channels_by_domain_frequency(counter, chs))
                \o WriteChannels(counter, g, gc, order, k + 1)

\* Mutant of StillFirst: the flag is_first_group is never cleared.
StillFirst_NeverCleared(is_first_group, first_channel_url) == is_first_group

\* is_first_group after a group's header (and timestamp) were written.
StillFirst(is_first_group, first_channel_url) ==
    is_first_group /\ first_channel_url \notin Nat

\* write_results_to_file with original_groups, from group g on.  A url is a
\* non-empty string, so "if first_channel_url" is true of every one.
RECURSIVE WriteGroups(_, _, _, _, _)
WriteGroups(counter, results, first_channel_url, is_first_group, g) ==
    IF g > Len(groups) THEN <<>>
    ELSE IF ~DictHas(results, groups[g].name)
    THEN WriteGroups(counter, results, first_channel_url, is_first_group, g + 1)
    ELSE LET gc == DictGet(results, groups[g].name)
         IN <<GenreRow(groups[g].name)>>
            \o (IF is_first_group /\ first_channel_url \in Nat
                THEN <<TimestampRow(first_channel_url)>> ELSE <<>>)
            \o WriteChannels(counter, g, gc, ChannelOrder(groups[g].channels, gc), 1)
            \o WriteGroups(counter, results, first_channel_url,
                           StillFirst(is_first_group, first_channel_url), g + 1)

write_results_to_file(counter, results) ==
    WriteGroups(counter, results, FirstValidOf(ChannelLists(results)), TRUE, 1)

\* run, step 3: collect_domain_stats(all_results).
CollectDomainStats ==
    /\ bpc = "done"
    /\ domain_counter' = CountInto(domain_counter, Concat(ChannelLists(all_results)))
    /\ bpc' = "counted"
    /\ UNCHANGED <<core_vars, fetch_vars, shared_vars, fn_vars, registry_vars,
                   bconfig, groups, gidx, cidx,
                   search_state, search_outcome, group_channels, all_results, delays, output>>

\* run, step 4: write_results_to_file(all_results, output_file, groups).
WriteResults ==
    /\ bpc = "counted"
    /\ output' = write_results_to_file(domain_counter, all_results)
    /\ bpc' = "written"
    /\ UNCHANGED <<core_vars, fetch_vars, shared_vars, fn_vars, registry_vars,
                   bconfig, groups, gidx, cidx,
                   search_state, search_outcome, group_channels, all_results, delays,
                   domain_counter>>

\* concurrent_groups is read by no step of the run.
InitRun == InitBatch /\ bconfig.concurrent_groups = DefaultConcurrentGroups

NextRun ==
    \/ NextBatch
    \/ CollectDomainStats
    \/ WriteResults

SpecRun == InitRun /\ [][NextRun]_vars

\* run() is one thread that goes on to its next statement, and the pool
\* threads of a group run whatever search was submitted.
FairSpecRun == SpecRun /\ WF_vars(NextRun)

\* ------------------------------------------------------------------------
\* Functions exercised on their own, on every input of a bounded set
\*   modular_batch_processor.py  sort_channels_by_domain_frequency
\*   searcher_interface.py       IPTVChannel.__post_init__
\*   tonkiang_searcher.py, 示例_新搜索器.py  _parse_search_results
\* ------------------------------------------------------------------------
\* The buckets: lists without repetition of the links 111 and 211 (on host
\* 1), 121 (on host 2) and 112 (on host 9).
Buckets ==
    UNION {{b \in [1..n -> {111, 121, 211, 112}] : \A i, j \in 1..n : i # j => b[i] # b[j]} :
              n \in 0..MaxBucket}

\* sorted_channels = sort_channels_by_domain_frequency(channels)
SortApply ==
    /\ fn = "rank"
    /\ sorted_channels = None
    /\ sorted_channels' = Some(sort_channels_by_domain_frequency(domain_counter, bucket))
    /\ UNCHANGED <<core_vars, fetch_vars, batch_vars, shared_vars, run_vars,
                   registry_vars, fn, bucket,
                   resolution, quality, parser, page_items, parsed, probed, kept>>

\* A resolution text is the list of its runs: a run of digits with its
\* value, or a run of other characters ("x", "p", a word).  "1920x1080" is
\* <<Digits(1920), Other, Digits(1080)>>, the default text a single Other.
Digits(n) == [digits |-> TRUE, value |-> n]
Other == [digits |-> FALSE, value |-> 0]
ResolutionTexts ==
    LET runs == {Other} \cup {Digits(n) : n \in {480, 720, 1080, 1280, 1920}}
    IN UNION {{r \in [1..n -> runs] : \A k \in 1..(n - 1) : r[k].digits # r[k + 1].digits} :
                 n \in 0..MaxTokens}

\* re.search(r'(\d+)', resolution): the leftmost run of digits.
FirstNumber(text) ==
    IF \E k \in DOMAIN text : text[k].digits
    THEN Some(text[CHOOSE k \in DOMAIN text :
                       text[k].digits /\ \A m \in 1..(k - 1) : ~text[m].digits].value)
    ELSE None

\* __post_init__ of a channel with a name and a url: the quality it ends
\* with.  "high", "standard" and "low" stand for the three strings of the
\* code; the field defaults to the second.
QualityOf(text) ==
    LET match == FirstNumber(text)
    IN IF match = None THEN "standard"
       ELSE IF match[1] >= 1080 THEN "high"
       ELSE IF match[1] >= 720 THEN "standard"
       ELSE "low"

\* channel = IPTVChannel(name, url, resolution)
PostInit ==
    /\ fn = "quality"
    /\ quality = None
    /\ quality' = Some(QualityOf(resolution))
    /\ UNCHANGED <<core_vars, fetch_vars, batch_vars, shared_vars, run_vars,
                   registry_vars, fn, bucket,
                   sorted_channels, resolution, parser, page_items, parsed,
                   probed, kept>>

\* A candidate of a page is "good" (a channel comes out of it) or "bad"
\* (working on it raises: no url, not an object, broken markup).
Pages == UNION {[1..n -> {"good", "bad"}] : n \in 0..MaxItems}

\* _parse_search_results from candidate k on, channels being the list so
\* far; a channel is the position of its candidate.  TonkiangSearcher wraps
\* the work on one candidate in a try of its own; the example searchers have
\* one try around the whole loop.
RECURSIVE ParseFrom(_, _, _, _)
ParseFrom(s, items, k, chs) ==
    IF k > Len(items) THEN [raised |-> FALSE, channels |-> chs]
    ELSE IF items[k] = "good" THEN ParseFrom(s, items, k + 1, Append(chs, k))
    ELSE IF s = "tonkiang" THEN ParseFrom(s, items, k + 1, chs)    \* "continue"
    ELSE [raised |-> FALSE, channels |-> chs]    \* the outer except, "return channels"

\* channels = _parse_search_results(html_content, keyword)
ParseApply ==
    /\ fn = "parse"
    /\ parsed = None
    /\ parsed' = Some(ParseFrom(parser, page_items, 1, <<>>))
    /\ UNCHANGED <<core_vars, fetch_vars, batch_vars, shared_vars, run_vars,
                   registry_vars, fn, bucket,
                   sorted_channels, resolution, quality, parser, page_items,
                   probed, kept>>

\* The requests of a probe are accepted (a status and a content the checks
\* pass), rejected, or raise (connection refused, timeout).  What a helper
\* does is [raised, value].
\* TonkiangSearcher._validate_m3u8_quality: its own try / except Exception
\* turns every exception into False.
validate_m3u8_quality(probe) == [raised |-> FALSE, value |-> probe = "accepted"]

\* TonkiangSearcher._validate_stream_basic: likewise.
validate_stream_basic(probe) == [raised |-> FALSE, value |-> probe = "accepted"]

\* TonkiangSearcher._validate_link: True without a probe when validation is
\* off; for a url with "[" and "]:" the helper's value, True if the helper
\* raised; for the others the helper's value, False if it raised.
validate_link(l) ==
    LET r == IF l.m3u8 THEN validate_m3u8_quality(l.probe)
                       ELSE validate_stream_basic(l.probe)
    IN IF ~l.enabled THEN TRUE
       ELSE IF l.ipv6 THEN (IF r.raised THEN TRUE ELSE r.value)
       ELSE (IF r.raised THEN FALSE ELSE r.value)

ValidateApply ==
    /\ fn = "validate"
    /\ kept = None
    /\ kept' = Some(validate_link(probed))
    /\ UNCHANGED <<core_vars, fetch_vars, batch_vars, shared_vars, run_vars,
                   registry_vars, fn, bucket, sorted_channels, resolution, quality,
                   parser, page_items, parsed, probed>>

\* One function and one input for it; the frequency table of a sort gives
\* each host of the bucket links a count of its own.
InitFunctions ==
    /\ CoreIdle /\ SearchIdle /\ FetchIdle /\ BatchIdle /\ SharedIdle /\ RegistryIdle
    /\ output = <<>>
    /\ sorted_channels = None /\ quality = None /\ parsed = None /\ kept = None
    /\ \/ /\ fn = "rank"
          /\ bucket \in Buckets
          /\ \E f \in [{1, 2, 9} -> 0..MaxFrequency] :
                domain_counter = [h \in 0..9 |-> IF h \in DOMAIN f THEN f[h] ELSE 0]
          /\ resolution = <<>> /\ parser = "none" /\ page_items = <<>>
          /\ probed = None
       \/ /\ fn = "quality"
          /\ resolution \in ResolutionTexts
          /\ domain_counter = [h \in 0..9 |-> 0]
          /\ bucket = <<>> /\ parser = "none" /\ page_items = <<>>
          /\ probed = None
       \/ /\ fn = "parse"
          /\ parser \in Searchers
          /\ page_items \in Pages
          /\ domain_counter = [h \in 0..9 |-> 0]
          /\ bucket = <<>> /\ resolution = <<>>
          /\ probed = None
       \/ /\ fn = "validate"
          /\ probed \in [enabled : BOOLEAN, ipv6 : BOOLEAN, m3u8 : BOOLEAN,
                         probe : {"accepted", "rejected", "raises"}]
          /\ domain_counter = [h \in 0..9 |-> 0]
          /\ bucket = <<>> /\ resolution = <<>> /\ parser = "none" /\ page_items = <<>>

NextFunctions ==
    \/ SortApply
    \/ PostInit
    \/ ParseApply
    \/ ValidateApply

SpecFunctions == InitFunctions /\ [][NextFunctions]_vars

\* ------------------------------------------------------------------------
\* The searcher registry and the processor's searcher
\*   searcher_interface.py        SearcherFactory
\*   modular_batch_processor.py   _create_searcher, switch_searcher
\* ------------------------------------------------------------------------
\* The names searchers are asked for and the classes registered: the three
\* of the repository.  A searcher instance is [id, class]; two instances of
\* one class differ in their id.
SearcherNames == {"tonkiang", "example", "another_example"}
SearcherClasses == {"TonkiangSearcher", "ExampleSearcher", "AnotherExampleSearcher"}

\* Mutant of create_searcher: the error does not list the registered names.
create_searcher_NoNames(reg, name, id) ==
    IF ~DictHas(reg, name)
    THEN [name |-> name, raised |-> TRUE, names |-> <<>>, instance |-> None]
    ELSE [name |-> name, raised |-> FALSE, names |-> <<>>,
          instance |-> Some([id |-> id, class |-> DictGet(reg, name)])]

\* SearcherFactory.create_searcher: a ValueError whose message carries
\* list(cls._searchers.keys()) when the name is not a key, else a new
\* instance of the class stored under the name.
create_searcher(reg, name, id) ==
    IF ~DictHas(reg, name)
    THEN [name |-> name, raised |-> TRUE, names |-> [i \in DOMAIN reg |-> reg[i].key],
          instance |-> None]
    ELSE [name |-> name, raised |-> FALSE, names |-> <<>>,
          instance |-> Some([id |-> id, class |-> DictGet(reg, name)])]

\* ModularBatchProcessor._create_searcher: the instance of the factory, or,
\* when the factory raised, a new TonkiangSearcher.
ProcessorCreateSearcher(reg, name, id) ==
    LET r == create_searcher(reg, name, id)
    IN IF r.raised THEN [id |-> id, class |-> "TonkiangSearcher"] ELSE r.instance[1]

\* SearcherFactory.register_searcher(name, searcher_class).
register_searcher(name, class) ==
    /\ Len(register_log) < 1 + MaxRegistrations
    /\ registry' = DictSet(registry, name, class)
    /\ register_log' = Append(register_log, [key |-> name, value |-> class])
    /\ UNCHANGED <<core_vars, fetch_vars, batch_vars, shared_vars, run_vars, fn_vars,
                   processor, created, instances>>

\* A direct call SearcherFactory.create_searcher(name, config).
CreateCall(name) ==
    /\ instances < MaxInstances
    /\ LET r == create_searcher(registry, name, instances + 1)
       IN /\ created' = Some(r)
          /\ instances' = IF r.raised THEN instances ELSE instances + 1
    /\ UNCHANGED <<core_vars, fetch_vars, batch_vars, shared_vars, run_vars, fn_vars,
                   registry, register_log, processor>>

\* ModularBatchProcessor.switch_searcher(searcher_name): the name is stored
\* in the configuration, then self.searcher = self._create_searcher().  The
\* except branch of switch_searcher needs _create_searcher to raise, which
\* takes the construction of the fallback TonkiangSearcher to raise; the
\* constructors of the repository do not.
switch_searcher(searcher_name) ==
    /\ instances < MaxInstances
    /\ processor' = [searcher_name |-> searcher_name,
                     searcher |-> ProcessorCreateSearcher(registry, searcher_name,
                                                          instances + 1)]
    /\ instances' = instances + 1
    /\ UNCHANGED <<core_vars, fetch_vars, batch_vars, shared_vars, run_vars, fn_vars,
                   registry, register_log, created>>

InitRegistry == InitCommon /\ CoreIdle

NextRegistry ==
    \/ \E name \in SearcherNames, class \in SearcherClasses : register_searcher(name, class)
    \/ \E name \in SearcherNames : CreateCall(name)
    \/ \E name \in SearcherNames : switch_searcher(name)

SpecRegistry == InitRegistry /\ [][NextRegistry]_vars

\* ------------------------------------------------------------------------
\* Properties of the validation engine (checked under SpecEngine)
\* ------------------------------------------------------------------------
EngineReturned == pc = "validated" /\ futures # <<>>
Approved == {i \in DOMAIN futures : verdict[channels[i]] = "valid"}

\* The candidates whose completion the loop has processed and whose probe
\* returned true, in the order of processing.
RECURSIVE ValidAmong(_)
ValidAmong(order) ==
    IF order = <<>> THEN <<>>
    ELSE IF verdict[channels[Head(order)]] = "valid"
         THEN <<channels[Head(order)]>> \o ValidAmong(Tail(order))
         ELSE ValidAmong(Tail(order))

\* The list an invocation returns when the probes complete in submission
\* order and no timeout fires: the approved candidates in input order, up to
\* the one that reaches the target.
InOrderResult ==
    LET approved == ValidAmong([i \in DOMAIN futures |-> i])
    IN SubSeq(approved, 1, Min(Len(approved), Max(target_count, 1)))

\* C2 (as claimed): when every candidate is approved and there are more
\* candidates than the target t >= 1, one invocation calls _validate_link at
\* most t + (W - 1) times, W being the concurrency ceiling of the invocation.
C2_EarlyExitBound ==
    (/\ EngineReturned
     /\ target_count >= 1
     /\ Len(channels) > target_count
     /\ \A i \in DOMAIN channels : verdict[channels[i]] = "valid")
    => probe_calls <= target_count + (max_workers - 1)

\* C3 (as claimed): once the valid count has reached the target the engine
\* no longer waits for the outstanding probes: in the shutdown that follows
\* the early exit, its return is possible whatever the probes are doing.
C3_StopsWaitingAtTarget ==
    (/\ pc = "shutdown"
     /\ exit_via = "target"
     /\ target_count >= 1
     /\ Len(valid_channels) >= target_count)
    => ENABLED EngineReturn

\* C4 (as claimed): every invocation that started probing eventually returns,
\* even when a submitted probe never completes.
C4_EngineTerminates == (pc \in {"collect", "shutdown"}) ~> (pc = "validated")

\* C5: after a timeout (the as_completed timeout or the elapsed-time check)
\* the engine does not raise, and what it returns is exactly the list of the
\* channels confirmed valid up to the timeout, in the order of confirmation.
TimedOut == exit_via \in {"timeout", "elapsed"}

C5_TimeoutReturnsConfirmed ==
    TimedOut =>
        /\ pc \in {"shutdown", "validated"}
        /\ valid_channels = ValidAmong(yield_order)
        /\ pc = "validated" => engine_ret = ValidAmong(yield_order)

\* C5 witness: the engine returned a non-empty list after the as_completed
\* timeout, while an approved probe that finished later was left out.
C5_Witness ==
    /\ pc = "validated"
    /\ exit_via = "timeout"
    /\ engine_ret # <<>>
    /\ \E i \in Approved \ Yielded : futures[i] = "done"

\* C6: for a target >= 1 neither the list being built nor the returned list
\* is ever longer than the target, so an approved probe that completes after
\* the target was reached is not in the returned list.
C6_AtMostTarget ==
    target_count >= 1 =>
        /\ Len(valid_channels) <= target_count
        /\ pc = "validated" => Len(engine_ret) <= target_count

\* C6 witness: the engine returned exactly target channels although more
\* candidates than that were approved and had finished.
C6_Witness ==
    /\ EngineReturned
    /\ target_count >= 1
    /\ Len(engine_ret) = target_count
    /\ Cardinality(Approved) > target_count

\* C7: a probe that raises is treated as invalid: its channel is never in the
\* list, the engine does not raise once probes were submitted, and when the
\* loop runs to exhaustion every approved candidate is in the returned list.
C7_RaisingProbeIsInvalid ==
    /\ \A k \in DOMAIN valid_channels : verdict[valid_channels[k]] # "raise"
    /\ \A k \in DOMAIN engine_ret :
          config.enable_validation => verdict[engine_ret[k]] # "raise"
    /\ (\E i \in Yielded : verdict[channels[i]] = "raise")
          => pc \in {"collect", "shutdown", "validated"}
    /\ (pc = "validated" /\ exit_via = "exhausted")
          => {channels[i] : i \in Approved} = Range(engine_ret)

\* C7 witness: the probe processed first raised, a probe processed after it
\* was approved, and the engine returned the approved channel.
C7_Witness ==
    /\ pc = "validated"
    /\ exit_via = "exhausted"
    /\ Len(yield_order) >= 2
    /\ verdict[channels[yield_order[1]]] = "raise"
    /\ verdict[channels[yield_order[2]]] = "valid"
    /\ channels[yield_order[2]] \in Range(engine_ret)

C9_SameForEveryInterleaving ==
    (EngineReturned /\ exit_via \in {"target", "exhausted"}) => engine_ret = InOrderResult

\* C9 (amended): the returned list is the approved candidates in the order in
\* which their completions were processed, so it is fixed by that order; it is
\* not the same for every order.
C9_CompletionOrder ==
    (EngineReturned /\ exit_via \in {"target", "exhausted"})
        => engine_ret = ValidAmong(yield_order)

\* C9 witness: two approved candidates completed against submission order
\* and are returned in completion order.
C9_Witness ==
    /\ EngineReturned
    /\ exit_via \in {"target", "exhausted"}
    /\ Len(engine_ret) >= 2
    /\ \E a, b \in DOMAIN yield_order :
          /\ a < b
          /\ yield_order[a] > yield_order[b]
          /\ engine_ret = <<channels[yield_order[a]], channels[yield_order[b]]>>

\* ------------------------------------------------------------------------
\* Properties of search_channels (checked under Spec)
\* ------------------------------------------------------------------------

\* C1 (as claimed): with caching enabled, when search_channels(k) has
\* returned, the cache maps k to the returned list; and a call for the same k
\* that follows returns that list, truncated to max_results, at once: no page
\* request is sent and no probe is run.
C1_CacheServesRepeat ==
    /\ [](pc = "returned" /\ config.enable_cache
            => /\ keyword \in DOMAIN search_cache.entries
               /\ search_cache.entries[keyword] = result)
    /\ [][(pc = "returned" /\ config.enable_cache /\ calls' = calls + 1 /\ keyword' = keyword)
            => /\ pc' = "returned"
               /\ result' = PySlice(result, config.max_results)
               /\ page_requests' = 0
               /\ probe_calls' = 0]_vars

\* C10: the returned list holds no two channels with the same url, each of
\* its channels is the first one with its url in all_channels (the order of
\* accumulation), they appear in that order, and no url is lost except by
\* the truncation to max_results.
UrlsOf(list) == {UrlOf(list[i]) : i \in DOMAIN list}
IsFirstOfItsUrl(list, j) == \A k \in 1..(j - 1) : UrlOf(list[k]) # UrlOf(list[j])

C10_DedupFirstOccurrence ==
    pc = "returned" =>
        /\ \A i, j \in DOMAIN result : i # j => UrlOf(result[i]) # UrlOf(result[j])
        /\ \A i \in DOMAIN result :
              \E j \in DOMAIN all_channels :
                  /\ all_channels[j] = result[i]
                  /\ IsFirstOfItsUrl(all_channels, j)
        /\ \A a, b \in DOMAIN result :
              a < b => \E i, j \in DOMAIN all_channels :
                           /\ i < j
                           /\ all_channels[i] = result[a]
                           /\ all_channels[j] = result[b]
        /\ Len(result) = Min(config.max_results, Cardinality(UrlsOf(all_channels)))

\* C10 witness: a search returned after accumulating two different channels
\* with one url, followed by a channel with another url; the first of the two
\* and the third channel are returned.
C10_Witness ==
    /\ pc = "returned"
    /\ Len(all_channels) = 3
    /\ UrlOf(all_channels[1]) = UrlOf(all_channels[2])
    /\ all_channels[1] # all_channels[2]
    /\ result = <<all_channels[1], all_channels[3]>>

\* C11: the list returned by search_channels never has more than max_results
\* entries.
C11_AtMostMaxResults == pc = "returned" => Len(result) <= config.max_results

\* C11 witness: a search returned max_results channels after accumulating
\* channels with more different urls than that.
C11_Witness ==
    /\ pc = "returned"
    /\ Len(result) = config.max_results
    /\ Cardinality(UrlsOf(all_channels)) > config.max_results

\* The list res is what de-duplication and truncation leave of the list all:
\* the first channel of each url, in order, cut to max_results.
KeptOf(all, res) ==
    /\ Len(res) = Min(config.max_results, Cardinality(UrlsOf(all)))
    /\ \A i \in DOMAIN res :
          \E j \in DOMAIN all : all[j] = res[i] /\ IsFirstOfItsUrl(all, j)
    /\ \A a, b \in DOMAIN res : a < b => UrlOf(res[a]) # UrlOf(res[b])

\* C12: a page request that raises leaves all_channels as it was and ends
\* the paging; from there the call sends no further request and returns what
\* de-duplication and truncation leave of the channels accumulated before.
C12_PageFailureKeepsEarlier ==
    [][/\ (page_requests' = page_requests + 1 /\ fetch_outcome' = "request_raises")
            => (pc' = "finish" /\ all_channels' = all_channels)
       /\ (pc = "finish" /\ fetch_outcome = "request_raises")
            => /\ pc' = "returned"
               /\ page_requests' = page_requests
               /\ all_channels' = all_channels
               /\ KeptOf(all_channels, result')]_vars

\* C12 witness: the request for page 2 raised and the search returned the
\* channels of page 1.
C12_Witness ==
    /\ pc = "returned"
    /\ fetch_outcome = "request_raises"
    /\ page_requests = 2
    /\ all_channels # <<>>
    /\ Range(result) \subseteq Range(all_channels)
    /\ result # <<>>

\* C14: one call sends at most max_pages page requests; the k-th request is
\* for page k, is sent only while fewer than max_results channels are
\* accumulated, and none is sent after a page that parsed to no candidate.
C14_PagingBound ==
    /\ [](page_requests <= config.max_pages)
    /\ [][/\ (page_requests' = page_requests + 1)
               => /\ page = page_requests + 1
                  /\ page <= config.max_pages
                  /\ Len(all_channels) < config.max_results
          /\ (fetch_outcome = "empty" /\ pc # "returned")
               => (pc' = "returned" /\ page_requests' = page_requests)]_vars

\* C14 witness: the paging stopped at the page bound with fewer than
\* max_results channels accumulated.
C14_Witness ==
    /\ pc = "returned"
    /\ page_requests = config.max_pages
    /\ config.max_pages = MaxPages
    /\ page = MaxPages + 1
    /\ Len(all_channels) < config.max_results

\* The links confirmed so far for the keyword of the call in progress: those
\* of the earlier pages and those the engine has approved on the current one.
AccumulatedValid == Len(all_channels) + Len(valid_channels)

\* C15: with validation enabled and min_valid_links >= 1, once the links
\* confirmed for the keyword number min_valid_links or more, the call sends no
\* further page request and starts no further probe.
C15_StopsAtMinValid ==
    [][(/\ config.enable_validation
        /\ config.min_valid_links >= 1
        /\ pc \notin {"idle", "returned"}
        /\ AccumulatedValid >= config.min_valid_links)
          => (page_requests' = page_requests /\ probe_calls' = probe_calls)]_vars

\* C16: with validation enabled and min_valid_links <= max_results, a call
\* whose probes all completed in time and whose pages held at least
\* min_valid_links approved candidates returns exactly min_valid_links
\* channels, each of them approved.
C16_ExactlyMinValid ==
    (/\ pc = "returned"
     /\ config.enable_validation
     /\ config.min_valid_links <= config.max_results
     /\ in_time
     /\ Len(all_channels) >= config.min_valid_links
     /\ \A i \in DOMAIN all_channels : verdict[all_channels[i]] = "valid")
       => /\ Len(result) = config.min_valid_links
          /\ \A i \in DOMAIN result : verdict[result[i]] = "valid"

\* C17: search_channels never raises: whatever the request, the parse, a probe
\* or the construction of the pool does, the call reaches its return.
C17_NeverRaises ==
    /\ pc # "raised"
    /\ pc = "finish" => ENABLED Finish

\* C17 witness: with concurrent_workers = 0 the pool constructor raised on
\* the first page and the search returned the empty list.
C17_Witness ==
    /\ pc = "returned"
    /\ config.enable_validation
    /\ config.concurrent_workers = 0
    /\ config.min_valid_links >= 1
    /\ fetch_outcome = "ok"
    /\ page_requests = 1
    /\ result = <<>>

\* C13: for each concrete searcher, a failed page fetch and a successful
\* fetch without results differ in the value _send_search_request returns and
\* in the branch the paging loop takes.
C13_FailureDistinctFromNoResults ==
    \A i, j \in DOMAIN fetch_log :
        (/\ fetch_log[i].searcher = fetch_log[j].searcher
         /\ fetch_log[i].failed
         /\ ~fetch_log[j].failed
         /\ fetch_log[j].page_channels = <<>>)
           => /\ fetch_log[i].html_content # fetch_log[j].html_content
              /\ fetch_log[i].branch # fetch_log[j].branch

\* The groups whose process_group_concurrent call has returned.
Processed(g) == g \in DOMAIN groups /\ bpc \in {"loop", "serial", "delay", "pool",
                                                 "group_end", "done"} /\ g < gidx

\* The positions of the channel name n in group g.
Occurrences(g, n) == {i \in DOMAIN groups[g].channels : groups[g].channels[i] = n}

\* C18: with a valid worker count nothing is raised out of the batch
\* processor; once a group is processed every one of its channels was
\* searched, its result has an entry for exactly the channel names of the
\* group, and a name whose every search raised has the empty list.
C18_GracefulDegradation ==
    /\ bconfig.max_workers_per_group >= 1 => bpc # "raised"
    /\ \A g \in DOMAIN groups :
          Processed(g) =>
             /\ DictHas(all_results, groups[g].name)
             /\ DictKeys(DictGet(all_results, groups[g].name)) = Range(groups[g].channels)
             /\ \A i \in DOMAIN groups[g].channels : search_state[g][i] = "collected"
             /\ \A n \in Range(groups[g].channels) :
                   (\A i \in Occurrences(g, n) : search_outcome[g][i] = "raises")
                      => DictGet(DictGet(all_results, groups[g].name), n) = <<>>

\* C18 witness: the run is over, the first search of the first group raised,
\* and a later channel of that group and a channel of the second group have
\* links.
C18_Witness ==
    /\ bpc = "done"
    /\ Len(groups) = 2
    /\ Len(groups[1].channels) >= 2
    /\ groups[1].channels[1] # groups[1].channels[2]
    /\ search_outcome[1][1] = "raises"
    /\ DictGet(DictGet(all_results, "G1"), groups[1].channels[1]) = <<>>
    /\ DictGet(DictGet(all_results, "G1"), groups[1].channels[2]) # <<>>
    /\ \E n \in DictKeys(DictGet(all_results, "G2")) :
           DictGet(DictGet(all_results, "G2"), n) # <<>>

\* A search of channel i of group g has started / has finished.
Started(g, i) == search_state[g][i] \in {"running", "finished", "collected"}
Ended(g, i) == search_state[g][i] \in {"finished", "collected"}

C20_WithinGroup ==
    (bpc \in {"serial", "delay", "pool", "group_end"}) =>
       /\ Cardinality(RunningIn(gidx)) <= bconfig.max_workers_per_group
       /\ bconfig.max_workers_per_group = 1 =>
             /\ \A i \in 1..NumCurrent :
                   /\ i < cidx => search_state[gidx][i] = "collected"
                   /\ i > cidx => search_state[gidx][i] = "pending"
             /\ delays = cidx - 1
             /\ bpc = "group_end" => cidx = NumCurrent

\* C20 witness: serial mode, the third channel of a group is being searched
\* after two sleeps.
C20_Witness ==
    /\ bconfig.max_workers_per_group = 1
    /\ bpc = "serial"
    /\ cidx = 3
    /\ search_state[gidx][3] = "running"
    /\ delays = 2

\* A group of three channels is searched by a pool of two workers, two
\* searches are running and the third is waiting.
C20_PoolWitness ==
    /\ bconfig.max_workers_per_group = 2
    /\ bpc = "pool"
    /\ NumCurrent = 3
    /\ Cardinality(RunningIn(gidx)) = 2
    /\ \E i \in 1..NumCurrent : search_state[gidx][i] = "queued"

\* ------------------------------------------------------------------------
\* Properties of a searcher shared by the searches of a group (SpecShared)
\* ------------------------------------------------------------------------
\* C21 (as claimed): the link probes in flight over all the channel searches
\* of a group never exceed min(concurrent_workers, 16).
C21_GroupProbeCeiling ==
    TotalInFlight <= Min(config.concurrent_workers, HardCap)

\* C22 (as claimed): every request carries the identity headers its own
\* unit set: the User-Agent and the Referer / Sec-Fetch-Site it was sent
\* with were last written by the unit that sent it.
C22_OwnIdentityHeaders ==
    \A u \in Units :
        last_request[u] # None
            => last_request[u][1].ua_by = u /\ last_request[u][1].site_by = u

\* ------------------------------------------------------------------------
\* Properties of the output of a run (SpecRun)
\* ------------------------------------------------------------------------
LinkRowsAt == {a \in DOMAIN output : output[a].kind = "link"}
GenreRowsAt == {a \in DOMAIN output : output[a].kind = "genre"}
TimestampRowsAt == {a \in DOMAIN output : output[a].kind = "timestamp"}
GroupIndex(name) == CHOOSE g \in DOMAIN groups : groups[g].name = name

\* C23: whatever the order in which the searches of a group completed, the
\* rows of the output follow the input: the group headers in the order of
\* the groups, and the link rows in the order of the groups and, within a
\* group, of its channels.
C23_RowsInInputOrder ==
    /\ \A a, b \in LinkRowsAt :
           a < b => \/ output[a].g < output[b].g
                    \/ output[a].g = output[b].g /\ output[a].i <= output[b].i
    /\ \A a, b \in GenreRowsAt :
           a < b => GroupIndex(output[a].name) < GroupIndex(output[b].name)

\* A pool run in which the second channel of the first group was collected
\* before the first, both with links, and the file was written.
C23_Witness ==
    /\ bpc = "written"
    /\ Len(groups[1].channels) = 2
    /\ LET gc == DictGet(all_results, "G1")
       IN /\ Len(gc) = 2
          /\ gc[1].key = groups[1].channels[2]
          /\ gc[1].value # <<>>
          /\ gc[2].value # <<>>
    /\ \E a, b \in LinkRowsAt : output[a].g = 1 /\ output[a].i = 1
                                 /\ output[b].g = 1 /\ output[b].i = 2

\* The url of the first non-empty list of the aggregate, in its own order.
FirstInAggregate ==
    LET lists == ChannelLists(all_results)
        nonempty == {k \in DOMAIN lists : lists[k] # <<>>}
    IN IF nonempty = {} THEN Placeholder
       ELSE lists[CHOOSE k \in nonempty : \A m \in nonempty : k <= m][1]

C25_NoHeaderOnlySection ==
    bpc = "written"
        => /\ \A a \in LinkRowsAt :
                 DictGet(DictGet(all_results, groups[output[a].g].name),
                         groups[output[a].g].channels[output[a].i]) # <<>>
           /\ \A a \in GenreRowsAt :
                 \E b \in LinkRowsAt :
                     b > a /\ groups[output[b].g].name = output[a].name

\* The links of the aggregate.
AggregateLinks ==
    UNION {Range(DictGet(DictGet(all_results, gn), n)) :
              <<gn, n>> \in {<<x, y>> \in DictKeys(all_results) \X ChannelNames :
                                 DictHas(DictGet(all_results, x), y)}}

\* C28: no row is written before every search of every group was
\* collected and the groups were counted, and from the count on the
\* frequency table holds, for each host, the number of links of the
\* aggregate on that host.
C28_RankAfterAllGroups ==
    /\ output # <<>>
          => /\ bpc = "written"
             /\ \A g \in DOMAIN groups : \A i \in DOMAIN groups[g].channels :
                    search_state[g][i] = "collected"
    /\ bpc \in {"counted", "written"}
          => \A h \in DOMAIN domain_counter :
                domain_counter[h]
                    = Cardinality({l \in AggregateLinks : extract_domain_or_ip(l) = h})
    /\ bpc \notin {"counted", "written"} => \A h \in DOMAIN domain_counter : domain_counter[h] = 0

\* A written run whose table counts a host of two channels of different
\* groups and the host that serves every channel.
C28_Witness ==
    /\ bpc = "written"
    /\ domain_counter[1] = 2
    /\ domain_counter[9] >= 3
    /\ output # <<>>

\* ------------------------------------------------------------------------
\* Properties of the functions exercised on their own (SpecFunctions)
\* ------------------------------------------------------------------------
FrequencyOf(link) == domain_counter[extract_domain_or_ip(link)]

\* C26: the sorted list holds the links of the bucket, a link on a host of
\* strictly higher frequency stands before every link on a host of lower
\* frequency, and links of equal frequency stand in the order of their
\* hosts; this for every original order of the bucket.
C26_HigherFrequencyFirst ==
    fn = "rank" /\ sorted_channels # None
        => LET out == sorted_channels[1]
           IN /\ Len(out) = Len(bucket)
              /\ Range(out) = Range(bucket)
              /\ \A a, b \in DOMAIN out :
                     /\ FrequencyOf(out[a]) > FrequencyOf(out[b]) => a < b
                     /\ FrequencyOf(out[a]) = FrequencyOf(out[b])
                           /\ extract_domain_or_ip(out[a]) < extract_domain_or_ip(out[b])
                        => a < b

\* A bucket given with the rarer host first and a tie between two hosts
\* given in the opposite order of the hosts: the sort moved both pairs.
C26_Witness ==
    /\ fn = "rank"
    /\ bucket = <<121, 111, 112>>
    /\ domain_counter[9] = 2 /\ domain_counter[1] = 1 /\ domain_counter[2] = 1
    /\ sorted_channels = Some(<<112, 111, 121>>)

\* The orders in which the links of the bucket can be given.
Reorderings(b) == {p \in [DOMAIN b -> Range(b)] : Range(p) = Range(b)}

\* C27 (as claimed): the sorted order depends on the set of links and the
\* table only: every other original order of the same links is sorted to
\* the same list.
C27_OrderIndependent ==
    fn = "rank" /\ sorted_channels # None
        => \A other \in Reorderings(bucket) :
               sort_channels_by_domain_frequency(domain_counter, other) = sorted_channels[1]

\* The height of a resolution text: the number of a text with one number,
\* the number behind the "x" of a width x height text.
HeightOf(text) ==
    LET at == {k \in DOMAIN text : text[k].digits}
    IN IF at = {} THEN None
       ELSE Some(text[CHOOSE k \in at : \A m \in at : m <= k].value)

\* C29 (as claimed): the quality is "high" for a height of 1080 or more,
\* "standard" for 720 up to 1079, "low" below, and "unknown" when the text
\* is absent or holds no number.
C29_QualityFromHeight ==
    fn = "quality" /\ quality # None
        => LET h == HeightOf(resolution)
           IN quality[1] = IF h = None THEN "unknown"
                           ELSE IF h[1] >= 1080 THEN "high"
                           ELSE IF h[1] >= 720 THEN "standard"
                           ELSE "low"

\* C30 (as claimed): for every searcher the parser raises nothing and
\* returns the channel of every good candidate of the page, whatever bad
\* candidates stand between them.
C30_BadCandidateSkipped ==
    fn = "parse" /\ parsed # None
        => /\ ~parsed[1].raised
           /\ Range(parsed[1].channels) = {k \in DOMAIN page_items : page_items[k] = "good"}

C36_AccumulatedBound ==
    config.enable_validation
        => /\ Len(all_channels) <= Max(0, config.min_valid_links)
           /\ pc \notin {"idle", "loop", "finish", "returned"}
                  => /\ target_count = config.min_valid_links - Len(all_channels)
                     /\ target_count > 0
           /\ pc = "returned"
                  => Len(result) <= Min(config.max_results, Max(0, config.min_valid_links))

\* A search that took one approved link from its first page, asked the
\* engine for the one still missing on the second page and returned two.
C36_Witness ==
    /\ pc = "returned"
    /\ config.enable_validation
    /\ config.min_valid_links = 2
    /\ page_requests = 2
    /\ probe_calls >= 3
    /\ Len(all_channels) = 2
    /\ Len(result) = 2

\* C37: with validation enabled every channel the engine holds as valid
\* belongs to a probe of this invocation that completed, was collected and
\* returned true, and every channel the engine returned, the search
\* accumulated or the search returned is one whose probe returned true.
C37_OnlyApprovedEmitted ==
    config.enable_validation
        => /\ \A k \in DOMAIN valid_channels :
                 \E i \in Yielded : /\ channels[i] = valid_channels[k]
                                    /\ futures[i] = "done"
                                    /\ verdict[channels[i]] = "valid"
           /\ \A c \in Range(engine_ret) \cup Range(all_channels) \cup Range(result) :
                 verdict[c] = "valid"

\* A search that returned one link although its page held a second
\* candidate, whose probe said no or raised.
C37_Witness ==
    /\ pc = "returned"
    /\ config.enable_validation
    /\ Len(result) = 1
    /\ probe_calls = 2
    /\ \E c \in Channels : verdict[c] \in {"invalid", "raise"}

\* ------------------------------------------------------------------------
\* Properties of the written output (SpecRun), continued
\* ------------------------------------------------------------------------
\* C32 (as claimed): a run whose input was parsed ends up writing the
\* output file, whatever the searches do and whatever the worker counts.
C32_OutputEventuallyWritten == <>(bpc = "written")

\* C39 (as claimed): the url of the timestamp row does not depend on the
\* order in which the searches of a group completed: it is the url of the
\* first link row of the output, whose place follows the input (C23).
C39_TimestampIsFirstRow ==
    bpc = "written" /\ LinkRowsAt # {}
        => output[2].url
               = output[CHOOSE a \in LinkRowsAt : \A b \in LinkRowsAt : a <= b].url

\* C40: ranking is a reordering of one bucket at a time: the link rows of
\* a channel are the links of its bucket in the aggregate, each once and
\* no other, and writing them changes neither the aggregate (this bucket
\* and the others) nor the frequency table.
C40_RankingIsPureReordering ==
    /\ [](bpc = "written"
            => \A g \in DOMAIN groups : \A i \in DOMAIN groups[g].channels :
                   LET gc == IF DictHas(all_results, groups[g].name)
                             THEN DictGet(all_results, groups[g].name) ELSE <<>>
                       links == IF DictHas(gc, groups[g].channels[i])
                                THEN DictGet(gc, groups[g].channels[i]) ELSE <<>>
                       rows == {a \in LinkRowsAt : output[a].g = g /\ output[a].i = i}
                   IN /\ Cardinality(rows) = Len(links)
                      /\ {output[a].url : a \in rows} = Range(links))
    /\ [][output' # output
             => all_results' = all_results /\ domain_counter' = domain_counter]_vars

\* A written output in which the two links of a bucket appear in the
\* opposite order of the bucket.
C40_Witness ==
    /\ bpc = "written"
    /\ \E k \in DOMAIN all_results : \E m \in DOMAIN all_results[k].value :
           LET links == all_results[k].value[m].value
           IN /\ Len(links) = 2
              /\ \E a \in LinkRowsAt :
                     /\ a + 1 \in LinkRowsAt
                     /\ output[a].url = links[2]
                     /\ output[a + 1].url = links[1]

\* ------------------------------------------------------------------------
\* Properties of the registry and of switching (SpecRegistry)
\* ------------------------------------------------------------------------
\* C31: a create_searcher call with a name that is not registered raises
\* the "not found" error with the list of the registered names and leaves
\* the registry as it was; a call with a registered name returns a new
\* instance of the class of the latest register_searcher call for that name.
C31_CreateByName ==
    [][created' # created
         => LET r == created'[1]
                calls_for == {k \in DOMAIN register_log : register_log[k].key = r.name}
            IN /\ registry' = registry
               /\ calls_for = {}
                     => /\ r.raised
                        /\ r.instance = None
                        /\ {r.names[k] : k \in DOMAIN r.names}
                               = {register_log[k].key : k \in DOMAIN register_log}
                        /\ \A a, b \in DOMAIN r.names : a # b => r.names[a] # r.names[b]
               /\ calls_for # {}
                     => /\ ~r.raised
                        /\ r.instance # None
                        /\ r.instance[1].class
                               = register_log[CHOOSE k \in calls_for :
                                                 \A m \in calls_for : m <= k].value
                        /\ r.instance[1].id = instances'
                        /\ instances' = instances + 1]_vars

\* A call with an unknown name after one name was registered twice: the
\* error lists the two registered names.
C31_Witness ==
    /\ created # None
    /\ created[1].raised
    /\ Len(created[1].names) = 2
    /\ Len(register_log) = 3

\* C33 (as claimed): a switch to a name that is not registered leaves the
\* processor with the instance it had.
C33_FailedSwitchKeepsSearcher ==
    [][processor' # processor /\ ~DictHas(registry, processor'.searcher_name)
         => processor'.searcher = processor.searcher]_vars

\* ------------------------------------------------------------------------
\* Properties of the probe of TonkiangSearcher (SpecFunctions)
\* ------------------------------------------------------------------------
\* C34 (as claimed): with validation on, a link with an IPv6 url whose
\* probe raises is kept: _validate_link returns True.
C34_IPv6KeptOnException ==
    fn = "validate" /\ kept # None /\ probed.enabled /\ probed.ipv6
        /\ probed.probe = "raises"
        => kept = Some(TRUE)

\* ------------------------------------------------------------------------
\* Properties of the validation engine (SpecEngine), continued
\* ------------------------------------------------------------------------
\* C38: when every probe of an invocation completed and was handled before
\* a timeout and the approved candidates number at most the target, the
\* engine returns exactly the approved candidates, each once, in whatever
\* order the probes completed.
C38_NoValidLost ==
    EngineReturned /\ in_time /\ Cardinality(Approved) <= target_count
        => /\ Range(engine_ret) = {channels[i] : i \in Approved}
           /\ Len(engine_ret) = Cardinality(Approved)

\* An invocation with two approved candidates and one rejected, a target
\* of two, the second approved probe collected first.
C38_Witness ==
    /\ EngineReturned
    /\ in_time
    /\ target_count = 2
    /\ Cardinality(Approved) = 2
    /\ Len(channels) = 3
    /\ Len(engine_ret) = 2
    /\ \E i, j \in Approved : i < j /\ engine_ret = <<channels[j], channels[i]>>

====
